---------------------------- MODULE Spec2Model ----------------------------
(***************************************************************************)
(* A model of the flakiness-detective detection pipeline:                  *)
(*   packages/core/src/clustering/dbscan.ts    (clusterFailures)           *)
(*   packages/core/src/flakiness-detective.ts  (FlakinessDetective.detect) *)
(*   packages/core/src/utils/{pattern-extraction,validation}.ts            *)
(*                                                                         *)
(* Conventions.                                                            *)
(*  - A JavaScript string is a sequence of one-character strings.          *)
(*  - An optional value (T | undefined) is a sequence of length <= 1:      *)
(*    <<>> is undefined, <<v>> is v.                                       *)
(*  - A Date is its getTime() value, an integer number of milliseconds.    *)
(*  - Embedding components and epsilon are exact rationals/integers; the   *)
(*    comparisons dist < epsilon are decided exactly (no float rounding).  *)
(***************************************************************************)
EXTENDS Integers, Sequences, FiniteSets, TLC

VARIABLES
    embeddedFailures,   \* clusterFailures: the argument embeddedFailures
    options,            \* clusterFailures: the argument options
    today,              \* the calendar date new Date() yields during the call
    out,                \* clusterFailures: the result, once the call was made
    called,             \* whether clusterFailures was called
    config,             \* FlakinessDetective: this.config, merged and validated
    pc,                 \* detect: the call it awaits, "idle" when no pass runs
    enhancedFailures,   \* detect: the local enhancedFailures
    calls,              \* the calls of the pass to its collaborators, in order
    store,              \* the data adapter: the clusters it holds
    result,             \* detect: how the promise of the latest pass settled
    mock,               \* MockEmbeddingProvider: the unit vector of each hash
    passes,             \* the passes that ended, latest last: input, date, result
    argument,           \* a function called on its own: the object passed to it
    answer,             \* a function called on its own: how the call ended, once made
    genai,              \* GoogleGenAIProvider: the instance and its calls under way
    running             \* detect: the passes under way at once, each with its locals

vars == <<embeddedFailures, options, today, out, called,
          config, pc, enhancedFailures, calls, store, result, mock, passes,
          argument, answer, genai, running>>

\* what a call of clusterFailures on its own leaves alone
detective == <<config, pc, enhancedFailures, calls, store, result, mock, passes,
               argument, answer, genai, running>>

\* what the passes of a detective leave alone
outsideDetect == <<mock, passes, argument, answer, genai, running>>
outsideMock == <<argument, answer, genai, running>>

---------------------------------------------------------------------------
(* Optional values and small helpers                                       *)

None == <<>>
Some(v) == <<v>>
IsSome(o) == Len(o) = 1
Get(o) == o[1]

Min(a, b) == IF a <= b THEN a ELSE b
Max(a, b) == IF a >= b THEN a ELSE b

Range(s) == {s[i] : i \in 1..Len(s)}

\* s.slice(0, n) / s.substring(0, n) for n >= 0
Take(s, n) == SubSeq(s, 1, Min(n, Len(s)))

\* array.filter(...): the elements of s whose flag is TRUE, in order
RECURSIVE FilterByFlags(_, _)
FilterByFlags(s, flags) ==
    IF s = <<>> THEN <<>>
    ELSE IF Head(flags) THEN <<Head(s)>> \o FilterByFlags(Tail(s), Tail(flags))
    ELSE FilterByFlags(Tail(s), Tail(flags))

\* Array.prototype.sort(cmp) with cmp = (a, b) => key(a) - key(b) is stable
\* (ECMAScript 2019). SortPerm(keys) is the order of the indices after such a
\* sort: an insertion that puts index i behind every index with a key <= its own.
RECURSIVE InsertStable(_, _, _)
InsertStable(perm, i, keys) ==
    IF perm = <<>> THEN <<i>>
    ELSE IF keys[i] < keys[Head(perm)] THEN <<i>> \o perm
    ELSE <<Head(perm)>> \o InsertStable(Tail(perm), i, keys)

RECURSIVE SortPermUpTo(_, _)
SortPermUpTo(keys, n) ==
    IF n = 0 THEN <<>>
    ELSE InsertStable(SortPermUpTo(keys, n - 1), n, keys)

SortPerm(keys) == SortPermUpTo(keys, Len(keys))

---------------------------------------------------------------------------
(* Number and date formatting                                              *)

DigitChar(d) == CASE d = 0 -> "0" [] d = 1 -> "1" [] d = 2 -> "2" [] d = 3 -> "3"
                  [] d = 4 -> "4" [] d = 5 -> "5" [] d = 6 -> "6" [] d = 7 -> "7"
                  [] d = 8 -> "8" [] d = 9 -> "9"

Digits == {"0", "1", "2", "3", "4", "5", "6", "7", "8", "9"}

\* String(n) of a non-negative integer: decimal, no leading zero
RECURSIVE NumberToString(_)
NumberToString(n) ==
    IF n < 10 THEN <<DigitChar(n)>>
    ELSE NumberToString(n \div 10) \o <<DigitChar(n % 10)>>

\* zero padding to a width, as Date.prototype.toISOString pads its fields
RECURSIVE PadStart(_, _)
PadStart(s, width) == IF Len(s) >= width THEN s ELSE PadStart(<<"0">> \o s, width)

\* new Date().toISOString().slice(0, 10) for a date with a 4-digit year
ISODate(d) ==
    PadStart(NumberToString(d.year), 4) \o <<"-">> \o
    PadStart(NumberToString(d.month), 2) \o <<"-">> \o
    PadStart(NumberToString(d.day), 2)

---------------------------------------------------------------------------
(* Distances (dbscan.ts 7-37 and the library's default)                    *)

\* epsilon is the rational eps.num / eps.den with eps.den > 0
RECURSIVE SumTo(_, _)
SumTo(f, n) == IF n = 0 THEN 0 ELSE f[n] + SumTo(f, n - 1)

Dot(a, b) == SumTo([i \in 1..Len(a) |-> a[i] * b[i]], Len(a))

\* A component that is Infinity or -Infinity is written as the integer
\* Infinity or its negative, beyond every finite component of the model; no
\* arithmetic is done on it.
Infinity == 1000000
HasInfinite(a) == \E i \in 1..Len(a) : a[i] = Infinity \/ a[i] = 0 - Infinity

\* cosineSimilarity throws when the two vectors differ in length
cosineSimilarityThrows(a, b) == Len(a) # Len(b)

\* cosineDistance(a, b) < eps, for vectors of one length:
\*   similarity is 0 when a magnitude is 0, dot / (|a| |b|) otherwise;
\*   1 - similarity < eps  iff  similarity * den > den - num,
\*   decided on the squares, by the signs of the two sides.
\* With an infinite component in a or b the magnitude of that vector is
\* Infinity and the dot product Infinity, -Infinity or NaN: the similarity
\* is 0 when the other magnitude is 0 and NaN otherwise, and NaN < eps is
\* false.
cosineDistanceBelow(a, b, eps) ==
    LET dot == Dot(a, b)
        AA  == Dot(a, a)
        BB  == Dot(b, b)
        c   == eps.den - eps.num
    IN  IF (~HasInfinite(a) /\ AA = 0) \/ (~HasInfinite(b) /\ BB = 0) THEN 0 > c
        ELSE IF HasInfinite(a) \/ HasInfinite(b) THEN FALSE
        ELSE IF dot >= 0
             THEN c < 0 \/ dot * dot * eps.den * eps.den > c * c * AA * BB
             ELSE c < 0 /\ dot * dot * eps.den * eps.den < c * c * AA * BB

\* the library's default distance: sqrt(sum (p[i] - q[i])^2) over the first
\* min(|p|, |q|) components;  sqrt(s) < eps  iff  s * den^2 < num^2.
\* With an infinite component among them the sum is Infinity or NaN, which
\* is not below eps.
euclideanDistanceBelow(p, q, eps) ==
    LET n == Min(Len(p), Len(q))
        s == SumTo([i \in 1..n |-> (p[i] - q[i]) * (p[i] - q[i])], n)
    IN  IF HasInfinite(SubSeq(p, 1, n)) \/ HasInfinite(SubSeq(q, 1, n)) THEN FALSE
        ELSE s * eps.den * eps.den < eps.num * eps.num

\* distanceFunc = options.distance === 'cosine' ? cosineDistance : undefined
DistBelow(distance, a, b, eps) ==
    IF distance = "cosine" THEN cosineDistanceBelow(a, b, eps)
    ELSE euclideanDistanceBelow(a, b, eps)

---------------------------------------------------------------------------
(* DBSCAN.run of the density-clustering library (dbscan.ts 215-216).       *)
(* Points are numbered 1..n here (0..n-1 in the library).  The state of a  *)
(* run is  [visited, assigned : sets of points, clusters : sequence of     *)
(* sequences of points].                                                   *)

\* _regionQuery: every point (the point itself included) at distance < eps,
\* in index order
RECURSIVE RegionQueryFrom(_, _, _, _, _)
RegionQueryFrom(data, p, id, distance, eps) ==
    IF id > Len(data) THEN <<>>
    ELSE (IF DistBelow(distance, data[p], data[id], eps) THEN <<id>> ELSE <<>>)
         \o RegionQueryFrom(data, p, id + 1, distance, eps)

regionQuery(data, p, distance, eps) == RegionQueryFrom(data, p, 1, distance, eps)

\* _mergeArrays(a, b): a followed by the elements of b it does not hold yet
RECURSIVE mergeArrays(_, _)
mergeArrays(a, b) ==
    IF b = <<>> THEN a
    ELSE mergeArrays(IF Head(b) \in Range(a) THEN a ELSE Append(a, Head(b)), Tail(b))

\* _expandCluster: the loop over the growing array neighbors, from position i
RECURSIVE expandCluster(_, _, _, _, _, _, _)
expandCluster(data, st, neighbors, i, minPts, distance, eps) ==
    IF i > Len(neighbors) THEN st
    ELSE
      LET p2     == neighbors[i]
          fresh  == p2 \notin st.visited
          nb2    == regionQuery(data, p2, distance, eps)
          grown  == IF fresh /\ Len(nb2) >= minPts
                    THEN mergeArrays(neighbors, nb2) ELSE neighbors
          last   == Len(st.clusters)
          st2    == [visited  |-> st.visited \cup {p2},
                     assigned |-> st.assigned \cup {p2},
                     clusters |-> IF p2 \in st.assigned THEN st.clusters
                                  ELSE [st.clusters EXCEPT ![last] = Append(@, p2)]]
      IN  expandCluster(data, st2, grown, i + 1, minPts, distance, eps)

\* run: the loop over pointId
RECURSIVE dbscanFrom(_, _, _, _, _, _)
dbscanFrom(data, st, p, minPts, distance, eps) ==
    IF p > Len(data) THEN st
    ELSE IF p \in st.visited THEN dbscanFrom(data, st, p + 1, minPts, distance, eps)
    ELSE
      LET nb  == regionQuery(data, p, distance, eps)
          vis == [st EXCEPT !.visited = @ \cup {p}]
      IN  IF Len(nb) < minPts
          THEN dbscanFrom(data, vis, p + 1, minPts, distance, eps)     \* noise
          ELSE dbscanFrom(data,
                 expandCluster(data,
                    [visited  |-> vis.visited,
                     assigned |-> vis.assigned \cup {p},
                     clusters |-> Append(vis.clusters, <<p>>)],
                    nb, 1, minPts, distance, eps),
                 p + 1, minPts, distance, eps)

dbscanRun(data, eps, minPts, distance) ==
    dbscanFrom(data, [visited |-> {}, assigned |-> {}, clusters |-> <<>>],
               1, minPts, distance, eps).clusters

---------------------------------------------------------------------------
(* createFailureCluster (dbscan.ts 49-197)                                 *)

\* Names every plain object {} inherits from Object.prototype (a selection):
\* counts[k] reads the inherited function when k is no own property yet.
ObjectPrototypeKeys ==
    { <<"c", "o", "n", "s", "t", "r", "u", "c", "t", "o", "r">>, <<"t", "o", "S", "t", "r", "i", "n", "g">>, <<"v", "a", "l", "u", "e", "O", "f">> }

\* A count record (Record<string, number> = {}) is the sequence of its own
\* entries [key, n, isNumber] in Object.entries order.
NoCounts == <<>>

HasOwn(counts, k) == \E i \in 1..Len(counts) : counts[i].key = k

\* counts[k] = (counts[k] || 0) + 1  for a string key.
\*   own numeric entry n        -> n + 1
\*   own non-numeric entry      -> stays a string (string + 1)
\*   no own entry, inherited k  -> (function || 0) + 1 is a string, not a number
\*   no own entry otherwise     -> 1, appended (insertion order)
bumpCount(counts, k) ==
    IF HasOwn(counts, k)
    THEN [i \in 1..Len(counts) |->
            IF counts[i].key = k /\ counts[i].isNumber
            THEN [counts[i] EXCEPT !.n = @ + 1] ELSE counts[i]]
    ELSE IF k \in ObjectPrototypeKeys
         THEN Append(counts, [key |-> k, n |-> 0, isNumber |-> FALSE])
         ELSE Append(counts, [key |-> k, n |-> 1, isNumber |-> TRUE])

\* the same for a numeric key (Record<number, number>): Object.entries lists
\* integer keys in ascending numeric order, whatever the insertion order
RECURSIVE InsertAscending(_, _)
InsertAscending(counts, e) ==
    IF counts = <<>> THEN <<e>>
    ELSE IF e.key < Head(counts).key THEN <<e>> \o counts
    ELSE <<Head(counts)>> \o InsertAscending(Tail(counts), e)

bumpNumberCount(counts, k) ==
    IF HasOwn(counts, k)
    THEN [i \in 1..Len(counts) |->
            IF counts[i].key = k THEN [counts[i] EXCEPT !.n = @ + 1] ELSE counts[i]]
    ELSE InsertAscending(counts, [key |-> k, n |-> 1, isNumber |-> TRUE])

\* Object.entries(counts).filter(([, count]) => count >= threshold).map(([k]) => k)
\* (a non-numeric count compares as NaN: never >= threshold)
RECURSIVE commonKeys(_, _)
commonKeys(counts, threshold) ==
    IF counts = <<>> THEN <<>>
    ELSE (IF Head(counts).isNumber /\ Head(counts).n >= threshold
          THEN <<Head(counts).key>> ELSE <<>>)
         \o commonKeys(Tail(counts), threshold)

\* Math.ceil(clusterSize * 0.5)
frequencyThreshold(clusterSize) == (clusterSize + 1) \div 2

\* truthiness of an optional string: present and not ''
Truthy(o) == IsSome(o) /\ Get(o) # <<>>

\* the tallies of the loop over failures (lines 67-91), one per pattern field
RECURSIVE tally(_, _, _)
tally(failures, field, counts) ==
    IF failures = <<>> THEN counts
    ELSE LET f == Head(failures)
             m == f.metadata
             next ==
               CASE field = "filePath"    -> bumpCount(counts, f.testFilePath)
                 [] field = "lineNumber"  -> IF IsSome(m.lineNumber)
                                             THEN bumpNumberCount(counts, Get(m.lineNumber))
                                             ELSE counts
                 [] field = "codeSnippet" -> IF Truthy(m.errorSnippet)
                                             THEN bumpCount(counts, Get(m.errorSnippet))
                                             ELSE counts
                 [] field = "locator"     -> IF Truthy(m.locator)
                                             THEN bumpCount(counts, Get(m.locator))
                                             ELSE counts
                 [] field = "matcher"     -> IF Truthy(m.matcher)
                                             THEN bumpCount(counts, Get(m.matcher))
                                             ELSE counts
                 [] field = "timeout"     -> IF IsSome(m.timeout)
                                             THEN bumpNumberCount(counts, Get(m.timeout))
                                             ELSE counts
         IN  tally(Tail(failures), field, next)

commonPatternsOf(failures, field) ==
    commonKeys(tally(failures, field, NoCounts), frequencyThreshold(Len(failures)))

\* mutant of truncateMessage: the message kept whole
truncateMessageLeftOut(msg) == msg
\* failure.errorMessage.substring(0, 200)
ErrorMessageLimit == 200
truncateMessage(msg) == Take(msg, ErrorMessageLimit)

\* mutant of sortByTimestamp: the members taken in their given order
sortByTimestampLeftOut(failures) == failures
\* [...failures].sort((a, b) => a.timestamp.getTime() - b.timestamp.getTime())
sortByTimestamp(failures) ==
    LET perm == SortPerm([i \in 1..Len(failures) |-> failures[i].timestamp])
    IN  [i \in 1..Len(failures) |-> failures[perm[i]]]

\* the loop of lines 140-143
RECURSIVE totalTimeFrom(_, _)
totalTimeFrom(sorted, i) ==
    IF i > Len(sorted) THEN 0
    ELSE (sorted[i].timestamp - sorted[i - 1].timestamp) + totalTimeFrom(sorted, i + 1)

\* mutant of averageTimeBetweenFailuresOf: divided by the number of members
averageOverMemberCount(failures, sorted) ==
    IF Len(failures) > 1
    THEN Some([num |-> totalTimeFrom(sorted, 2), den |-> Len(sorted)])
    ELSE None
\* averageTimeBetweenFailures: undefined for one failure, else the quotient
\* totalTime / (n - 1), kept as the exact fraction [num, den]
averageTimeBetweenFailuresOf(failures, sorted) ==
    IF Len(failures) > 1
    THEN Some([num |-> totalTimeFrom(sorted, 2), den |-> Len(sorted) - 1])
    ELSE None

SnippetLimit == 100

failurePatternOf(filePaths, lineNumbers, codeSnippets) ==
    IF Len(filePaths) > 0 /\ Len(lineNumbers) > 0
    THEN <<"C", "o", "m", "m", "o", "n", " ", "f", "a", "i", "l", "u", "r", "e", " ", "a", "t", " ">> \o filePaths[1] \o <<":">> \o NumberToString(lineNumbers[1])
    ELSE IF Len(codeSnippets) > 0
    THEN <<"C", "o", "m", "m", "o", "n", " ", "c", "o", "d", "e", " ", "p", "a", "t", "t", "e", "r", "n", ":", " ">> \o Take(codeSnippets[1], SnippetLimit)
         \o (IF Len(codeSnippets[1]) > SnippetLimit THEN <<".", ".", ".">> ELSE <<>>)
    ELSE <<"S", "i", "m", "i", "l", "a", "r", " ", "t", "e", "s", "t", " ", "f", "a", "i", "l", "u", "r", "e", "s">>

\* the pattern with the timeout left out
assertionPatternWithoutTimeout(locators, matchers, timeouts) ==
    IF Len(locators) > 0 /\ Len(matchers) > 0
    THEN Some(matchers[1] \o <<" ", "o", "n", " ">> \o locators[1])
    ELSE IF Len(locators) > 0 THEN Some(<<"C", "o", "m", "m", "o", "n", " ", "l", "o", "c", "a", "t", "o", "r", ":", " ">> \o locators[1])
    ELSE IF Len(matchers) > 0 THEN Some(<<"C", "o", "m", "m", "o", "n", " ", "m", "a", "t", "c", "h", "e", "r", ":", " ">> \o matchers[1])
    ELSE None

assertionPatternOf(locators, matchers, timeouts) ==
    IF Len(locators) > 0 /\ Len(matchers) > 0
    THEN Some(matchers[1] \o <<" ", "o", "n", " ">> \o locators[1]
              \o (IF Len(timeouts) > 0
                  THEN <<" ", "(">> \o NumberToString(timeouts[1]) \o <<"m", "s", " ", "t", "i", "m", "e", "o", "u", "t", ")">>
                  ELSE <<>>))
    ELSE IF Len(locators) > 0 THEN Some(<<"C", "o", "m", "m", "o", "n", " ", "l", "o", "c", "a", "t", "o", "r", ":", " ">> \o locators[1])
    ELSE IF Len(matchers) > 0 THEN Some(<<"C", "o", "m", "m", "o", "n", " ", "m", "a", "t", "c", "h", "e", "r", ":", " ">> \o matchers[1])
    ELSE None

RECURSIVE runIdsOf(_)
runIdsOf(failures) ==
    IF failures = <<>> THEN <<>>
    ELSE (IF Truthy(Head(failures).metadata.runId)
          THEN <<Get(Head(failures).metadata.runId)>> ELSE <<>>)
         \o runIdsOf(Tail(failures))

createFailureCluster(failures, clusterId) ==
    LET commonFilePaths    == commonPatternsOf(failures, "filePath")
        commonLineNumbers  == commonPatternsOf(failures, "lineNumber")
        commonCodeSnippets == commonPatternsOf(failures, "codeSnippet")
        commonLocators     == commonPatternsOf(failures, "locator")
        commonMatchers     == commonPatternsOf(failures, "matcher")
        commonTimeouts     == commonPatternsOf(failures, "timeout")
        sortedFailures     == sortByTimestamp(failures)
    IN  [ id       |-> clusterId,
          failures |-> failures,
          commonPatterns |->
            [ filePaths    |-> commonFilePaths,
              lineNumbers  |-> commonLineNumbers,
              codeSnippets |-> commonCodeSnippets,
              locators     |-> commonLocators,
              matchers     |-> commonMatchers,
              timeouts     |-> commonTimeouts ],
          metadata |->
            [ failureCount |-> Len(failures),
              firstSeen    |-> sortedFailures[1].timestamp,
              lastSeen     |-> sortedFailures[Len(sortedFailures)].timestamp,
              averageTimeBetweenFailures |->
                  averageTimeBetweenFailuresOf(failures, sortedFailures),
              failureIds        |-> [i \in 1..Len(failures) |-> failures[i].id],
              runIds            |-> runIdsOf(failures),
              failureTimestamps |-> [i \in 1..Len(failures) |-> failures[i].timestamp],
              errorMessages     |-> [i \in 1..Len(failures) |->
                                        truncateMessage(failures[i].errorMessage)] ],
          failurePattern   |-> failurePatternOf(commonFilePaths, commonLineNumbers,
                                                commonCodeSnippets),
          assertionPattern |-> assertionPatternOf(commonLocators, commonMatchers,
                                                  commonTimeouts) ]

---------------------------------------------------------------------------
(* clusterFailures (dbscan.ts 202-234)                                     *)

\* mutant of generateClusterId: the index counted from one
generateClusterIdFromOne(baseKey, index) == baseKey \o <<"-">> \o NumberToString(index + 1)
\* mutant of generateClusterId: the index left out of the template
generateClusterIdWithoutIndex(baseKey, index) == baseKey \o <<"-">>
\* generateClusterId: `${baseKey}-${index}`
generateClusterId(baseKey, index) == baseKey \o <<"-">> \o NumberToString(index)

\* mutant of survivingClusters: the filter left out
survivingClustersUnfiltered(clusters, minClusterSize) == clusters
\* .filter((cluster) => cluster.length >= options.minClusterSize)
survivingClusters(clusters, minClusterSize) ==
    FilterByFlags(clusters, [i \in 1..Len(clusters) |-> Len(clusters[i]) >= minClusterSize])

\* mutant of assembleClusters: every member is the first failure of its
\* index set
assembleClustersOfFirst(survivors, failures, weekKey) ==
    [k \in 1..Len(survivors) |->
        createFailureCluster([j \in 1..Len(survivors[k]) |-> failures[survivors[k][1]]],
                             generateClusterId(weekKey, k - 1))]

\* .map((clusterIndices, index) => createFailureCluster(members, id)):
\* index is the zero-based position in the filtered array
assembleClusters(survivors, failures, weekKey) ==
    [k \in 1..Len(survivors) |->
        createFailureCluster([j \in 1..Len(survivors[k]) |-> failures[survivors[k][j]]],
                             generateClusterId(weekKey, k - 1))]

\* mutant of rankClusters: the sort left out
rankClustersUnsorted(assembled) == assembled
\* .sort((a, b) => b.failures.length - a.failures.length)
rankClusters(assembled) ==
    LET perm == SortPerm([i \in 1..Len(assembled) |-> 0 - Len(assembled[i].failures)])
    IN  [i \in 1..Len(assembled) |-> assembled[perm[i]]]

\* mutant of effectiveMaxClusters: unset or zero lifts the cap
effectiveMaxClustersOrAll(opts) ==
    IF IsSome(opts.maxClusters) /\ Get(opts.maxClusters) > 0
    THEN Get(opts.maxClusters) ELSE 1000000
\* options.maxClusters ?? 5
DefaultMaxClusters == 5
effectiveMaxClusters(opts) ==
    IF IsSome(opts.maxClusters) THEN Get(opts.maxClusters) ELSE DefaultMaxClusters

\* mutant of capClusters: allClusters.slice(-maxClusters), the last ones
capClustersFromEnd(allClusters, maxClusters) ==
    IF maxClusters = 0 THEN allClusters
    ELSE SubSeq(allClusters, Max(1, Len(allClusters) - maxClusters + 1), Len(allClusters))
\* allClusters.slice(0, maxClusters), maxClusters >= 0
capClusters(allClusters, maxClusters) == Take(allClusters, maxClusters)

\* a failure whose embedding is undefined is a record without the field
HasEmbedding(failure) == "embedding" \in DOMAIN failure

\* dbscan.run throws out of the first region query: a TypeError when it reads
\* the length of an undefined embedding, the error of cosineSimilarity when
\* it meets a vector of another length than the first
clusteringThrows(failures, opts) ==
    \/ \E i \in 1..Len(failures) : ~HasEmbedding(failures[i])
    \/ /\ opts.distance = "cosine"
       /\ \E i \in 1..Len(failures) :
             cosineSimilarityThrows(failures[1].embedding, failures[i].embedding)

\* the raw index sets of dbscan.run for this input
rawClusters(failures, opts) ==
    dbscanRun([i \in 1..Len(failures) |-> failures[i].embedding],
              opts.epsilon, opts.minPoints, opts.distance)

\* the result: [threw |-> TRUE] when the call throws, else the returned list
clusterFailures(failures, opts, date) ==
    IF Len(failures) = 0 THEN [threw |-> FALSE, clusters |-> <<>>]
    ELSE IF clusteringThrows(failures, opts) THEN [threw |-> TRUE, clusters |-> <<>>]
    ELSE [threw    |-> FALSE,
          clusters |-> capClusters(
                          rankClusters(
                             assembleClusters(
                                survivingClusters(rawClusters(failures, opts),
                                                  opts.minClusterSize),
                                failures, ISODate(date))),
                          effectiveMaxClusters(opts))]

---------------------------------------------------------------------------
(* Text matching, as the regular expressions of pattern-extraction.ts do   *)
(* it: the leftmost match, greedy quantifiers, the capture of the match.   *)

\* the character at position i, '' when there is none
At(s, i) == IF i \in 1..Len(s) THEN s[i] ELSE ""

Least(S)    == CHOOSE x \in S : \A y \in S : x <= y
Greatest(S) == CHOOSE x \in S : \A y \in S : x >= y

LowercaseLetters == <<"a", "b", "c", "d", "e", "f", "g", "h", "i", "j", "k", "l", "m",
                      "n", "o", "p", "q", "r", "s", "t", "u", "v", "w", "x", "y", "z">>
UppercaseLetters == <<"A", "B", "C", "D", "E", "F", "G", "H", "I", "J", "K", "L", "M",
                      "N", "O", "P", "Q", "R", "S", "T", "U", "V", "W", "X", "Y", "Z">>

\* the classes \d, \w, \s, and the complements used by the expressions
IsDigit(c) == c \in Digits
IsWordChar(c) ==
    c \in Range(LowercaseLetters) \cup Range(UppercaseLetters) \cup Digits \cup {"_"}
IsSpace(c) == c \in {" ", "\t", "\n", "\r"}
IsLineChar(c) == c # "" /\ c \notin {"\n", "\r"}
IsNotQuote(c) == c # "" /\ c \notin {"\"", "'"}
\* U+0060 (the grave accent), which a string of this language cannot hold,
\* is the one element of a text that is written by a name
Backtick == "U+0060"
IsNotBacktick(c) == c # "" /\ c # Backtick
IsQuote(c) == c \in {"\"", "'"}

\* the character as the flag i compares it
ToLower(c) ==
    IF c \in Range(UppercaseLetters)
    THEN LowercaseLetters[CHOOSE k \in 1..26 : UppercaseLetters[k] = c]
    ELSE c

\* the literal lit stands in s at position i
LiteralAt(s, i, lit) ==
    /\ i >= 1
    /\ i + Len(lit) - 1 <= Len(s)
    /\ \A k \in 1..Len(lit) : s[i + k - 1] = lit[k]

\* the same under the flag i (lit is written in lower case)
LiteralAtIgnoreCase(s, i, lit) ==
    /\ i >= 1
    /\ i + Len(lit) - 1 <= Len(s)
    /\ \A k \in 1..Len(lit) : ToLower(s[i + k - 1]) = lit[k]

\* the last position of the longest run of characters of a class that starts
\* at position i; i - 1 when the run is empty
RunEnd(s, i, InClass(_)) ==
    IF i > Len(s) THEN i - 1
    ELSE CHOOSE j \in (i - 1)..Len(s) :
            /\ \A k \in i..j : InClass(s[k])
            /\ (j = Len(s) \/ ~InClass(s[j + 1]))

\* String.prototype.trim: the text from its first character that is no white
\* space to its last one
trim(s) ==
    LET first == RunEnd(s, 1, IsSpace) + 1
    IN  IF first > Len(s) THEN <<>>
        ELSE SubSeq(s, first, Greatest({k \in first..Len(s) : ~IsSpace(s[k])}))

\* Number.parseInt(digits, 10) of a non-empty string of digits
DigitValue(c) == CHOOSE d \in 0..9 : DigitChar(d) = c

RECURSIVE parseInt(_)
parseInt(digits) ==
    IF digits = <<>> THEN 0
    ELSE 10 * parseInt(SubSeq(digits, 1, Len(digits) - 1)) + DigitValue(digits[Len(digits)])

---------------------------------------------------------------------------
(* The extractors of pattern-extraction.ts.  Each yields an optional       *)
(* value: <<>> where the function returns undefined.                       *)

\* the leftmost start among the starts at which an expression matches, 0
\* when there is none
FirstMatchIn(starts) == IF starts = {} THEN 0 ELSE Least(starts)

\* the capture between the positions c[1] and c[2]; <<>> stands for no match
Capture(s, c) == IF c = <<>> THEN None ELSE Some(SubSeq(s, c[1], c[2]))

\* extractRunId: /\/runs\/(\d+)/ on the report link
RunsAt(s, i) == LiteralAt(s, i, <<"/", "r", "u", "n", "s", "/">>) /\ IsDigit(At(s, i + 6))

\* the digits behind the last '/runs/' in place of the first
extractRunIdOfLast(reportLink) ==
    IF reportLink = None \/ Get(reportLink) = <<>> THEN None
    ELSE LET s == Get(reportLink)
             starts == {k \in 1..Len(s) : RunsAt(s, k)}
         IN  IF starts = {} THEN None
             ELSE Some(SubSeq(s, Greatest(starts) + 6,
                              RunEnd(s, Greatest(starts) + 6, IsDigit)))

extractRunId(reportLink) ==
    IF reportLink = None \/ Get(reportLink) = <<>> THEN None
    ELSE LET s == Get(reportLink)
             i == FirstMatchIn({k \in 1..Len(s) : RunsAt(s, k)})
         IN  IF i = 0 THEN None
             ELSE Some(SubSeq(s, i + 6, RunEnd(s, i + 6, IsDigit)))

\* extractLineNumber: /at .*:(\d+):\d+/ on the stack.  After 'at ' at i the
\* greedy .* stays on the line and ends before the last ':' that is followed
\* by digits, ':' and a digit.
LineColons(s, i) ==
    {p \in (i + 3)..RunEnd(s, i + 3, IsLineChar) :
        LET q == RunEnd(s, p + 1, IsDigit) + 1
        IN  /\ s[p] = ":"
            /\ IsDigit(At(s, p + 1))
            /\ At(s, q) = ":"
            /\ IsDigit(At(s, q + 1))}

extractLineNumber(stack) ==
    LET i == FirstMatchIn({k \in 1..Len(stack) :
                              LiteralAt(stack, k, <<"a", "t", " ">>) /\ LineColons(stack, k) # {}})
    IN  IF i = 0 THEN None
        ELSE LET p == Greatest(LineColons(stack, i))
             IN  Some(parseInt(SubSeq(stack, p + 1, RunEnd(stack, p + 1, IsDigit))))

\* extractErrorSnippet: /`([^`]+)`/ on the message, the capture trimmed
SnippetAt(s, i) ==
    LET j == RunEnd(s, i + 1, IsNotBacktick)
    IN  s[i] = Backtick /\ j >= i + 1 /\ At(s, j + 1) = Backtick

extractErrorSnippet(stack, errorMessage) ==
    LET i == FirstMatchIn({k \in 1..Len(errorMessage) : SnippetAt(errorMessage, k)})
    IN  IF i = 0 THEN None
        ELSE Some(trim(SubSeq(errorMessage, i + 1,
                              RunEnd(errorMessage, i + 1, IsNotBacktick))))

\* extractLocator:
\*   /(getBy\w+|queryBy\w+|findBy\w+|selector|locator|xpath|css)
\*    \s*\(\s*["']([^"']+)["']\s*\)/
LocatorPrefixes == { <<"g", "e", "t", "B", "y">>, <<"q", "u", "e", "r", "y", "B", "y">>, <<"f", "i", "n", "d", "B", "y">> }
LocatorWords == { <<"s", "e", "l", "e", "c", "t", "o", "r">>, <<"l", "o", "c", "a", "t", "o", "r">>, <<"x", "p", "a", "t", "h">>, <<"c", "s", "s">> }

\* the last position of the first group matched at i, 0 when it does not match
LocatorNameEnd(s, i) ==
    IF \E pre \in LocatorPrefixes : LiteralAt(s, i, pre) /\ IsWordChar(At(s, i + Len(pre)))
    THEN RunEnd(s, i + Len(CHOOSE pre \in LocatorPrefixes : LiteralAt(s, i, pre)),
                IsWordChar)
    ELSE IF \E w \in LocatorWords : LiteralAt(s, i, w)
    THEN i + Len(CHOOSE w \in LocatorWords : LiteralAt(s, i, w)) - 1
    ELSE 0

\* ["']([^"']+)["'] with the first quote at position quote: the positions of
\* the capture, <<>> when it does not match
QuotedFrom(s, quote) ==
    LET last == RunEnd(s, quote + 1, IsNotQuote)
    IN  IF IsQuote(At(s, quote)) /\ last >= quote + 1 /\ IsQuote(At(s, last + 1))
        THEN <<quote + 1, last>>
        ELSE <<>>

\* ... followed by \s*\)
ClosedArgument(s, c) ==
    IF c # <<>> /\ At(s, RunEnd(s, c[2] + 2, IsSpace) + 1) = ")" THEN c ELSE <<>>

\* \s*\(\s*["']([^"']+)["']\s*\) behind the first group, which ends at nameEnd
LocatorArgument(s, nameEnd) ==
    LET open == RunEnd(s, nameEnd + 1, IsSpace) + 1
    IN  IF nameEnd # 0 /\ At(s, open) = "("
        THEN ClosedArgument(s, QuotedFrom(s, RunEnd(s, open + 1, IsSpace) + 1))
        ELSE <<>>

LocatorAt(s, i) == LocatorArgument(s, LocatorNameEnd(s, i))

extractLocator(errorMessage) ==
    LET i == FirstMatchIn({k \in 1..Len(errorMessage) : LocatorAt(errorMessage, k) # <<>>})
    IN  IF i = 0 THEN None ELSE Capture(errorMessage, LocatorAt(errorMessage, i))

\* extractMatcher: /expect.*\.(to\w+)/.  After 'expect' at i the greedy .*
\* stays on the line and ends before the last '.to' followed by a word
\* character.
MatcherDots(s, i) ==
    {p \in (i + 6)..RunEnd(s, i + 6, IsLineChar) :
        /\ s[p] = "."
        /\ LiteralAt(s, p + 1, <<"t", "o">>)
        /\ IsWordChar(At(s, p + 3))}

extractMatcher(errorMessage) ==
    LET i == FirstMatchIn({k \in 1..Len(errorMessage) :
                              /\ LiteralAt(errorMessage, k, <<"e", "x", "p", "e", "c", "t">>)
                              /\ MatcherDots(errorMessage, k) # {}})
    IN  IF i = 0 THEN None
        ELSE LET p == Greatest(MatcherDots(errorMessage, i))
             IN  Some(SubSeq(errorMessage, p + 1, RunEnd(errorMessage, p + 3, IsWordChar)))

\* extractTimeout: /timeout\s+(?:of\s+)?(\d+)\s*(ms|s)?/i.
\* (ms|s)? at position unit: the text of the group, '' when it takes no part
TimeoutUnit(s, unit) ==
    IF LiteralAtIgnoreCase(s, unit, <<"m", "s">>) THEN SubSeq(s, unit, unit + 1)
    ELSE IF LiteralAtIgnoreCase(s, unit, <<"s">>) THEN SubSeq(s, unit, unit)
    ELSE <<>>

\* (\d+)\s*(ms|s)? with the digits from position digits on
TimeoutDigits(s, digits) ==
    LET last == RunEnd(s, digits, IsDigit)
    IN  IF last >= digits
        THEN [ digits |-> SubSeq(s, digits, last),
               unit   |-> TimeoutUnit(s, RunEnd(s, last + 1, IsSpace) + 1) ]
        ELSE <<>>

\* the digits and the unit for 'timeout' at i, <<>> when it does not match
TimeoutParts(s, i) ==
    LET gap == RunEnd(s, i + 7, IsSpace)
    IN  IF LiteralAtIgnoreCase(s, i, <<"t", "i", "m", "e", "o", "u", "t">>) /\ IsSpace(At(s, i + 7))
        THEN TimeoutDigits(s, IF /\ LiteralAtIgnoreCase(s, gap + 1, <<"o", "f">>)
                                 /\ IsSpace(At(s, gap + 3))
                              THEN RunEnd(s, gap + 3, IsSpace) + 1
                              ELSE gap + 1)
        ELSE <<>>

MillisecondsPerSecond == 1000

\* lines 461-467: seconds are converted, any other unit is not
TimeoutValue(m) ==
    IF m.unit = <<"s">> THEN Some(parseInt(m.digits) * MillisecondsPerSecond)
    ELSE Some(parseInt(m.digits))

extractTimeout(errorMessage) ==
    LET i == FirstMatchIn({k \in 1..Len(errorMessage) :
                              TimeoutParts(errorMessage, k) # <<>>})
    IN  IF i = 0 THEN None ELSE TimeoutValue(TimeoutParts(errorMessage, i))

\* /(?:word|...):\s*["']([^"']+)["']/i: the positions of the capture for a
\* word at i, <<>> when it does not match
QuotedValue(s, i, words) ==
    IF \E w \in words : LiteralAtIgnoreCase(s, i, w \o <<":">>)
    THEN QuotedFrom(s, RunEnd(s, i + 1 + Len(CHOOSE w \in words :
                                                 LiteralAtIgnoreCase(s, i, w \o <<":">>)),
                              IsSpace) + 1)
    ELSE <<>>

\* /Label:\s*(.+?)(?:\n|$)/i: the starts the capture may have for a label at
\* i.  The greedy \s* gives back white space until the rest of the line, one
\* character at least, ends with a line feed or with the text.
LabelledStarts(s, i, label) ==
    IF LiteralAtIgnoreCase(s, i, label)
    THEN {a \in (i + Len(label))..(RunEnd(s, i + Len(label), IsSpace) + 1) :
             LET t == RunEnd(s, a, IsLineChar)
             IN  IsLineChar(At(s, a)) /\ (t = Len(s) \/ s[t + 1] = "\n")}
    ELSE {}

\* the alternative pattern of extractActualValue / extractExpectedValue
extractLabelled(errorMessage, label) ==
    LET i == FirstMatchIn({k \in 1..Len(errorMessage) :
                              LabelledStarts(errorMessage, k, label) # {}})
    IN  IF i = 0 THEN None
        ELSE LET a == Greatest(LabelledStarts(errorMessage, i, label))
             IN  Some(trim(SubSeq(errorMessage, a, RunEnd(errorMessage, a, IsLineChar))))

\* the two expressions of extractActualValue / extractExpectedValue
extractValue(errorMessage, words, label) ==
    LET i == FirstMatchIn({k \in 1..Len(errorMessage) :
                              QuotedValue(errorMessage, k, words) # <<>>})
    IN  IF i # 0 THEN Capture(errorMessage, QuotedValue(errorMessage, i, words))
        ELSE extractLabelled(errorMessage, label)

\* /(?:received|actual|got):.../i, then /Actual:\s*(.+?)(?:\n|$)/i
extractActualValue(errorMessage) ==
    extractValue(errorMessage, { <<"r", "e", "c", "e", "i", "v", "e", "d">>, <<"a", "c", "t", "u", "a", "l">>, <<"g", "o", "t">> }, <<"a", "c", "t", "u", "a", "l", ":">>)

\* /(?:expected|should):.../i, then /Expected:\s*(.+?)(?:\n|$)/i
extractExpectedValue(errorMessage) ==
    extractValue(errorMessage, { <<"e", "x", "p", "e", "c", "t", "e", "d">>, <<"s", "h", "o", "u", "l", "d">> }, <<"e", "x", "p", "e", "c", "t", "e", "d", ":">>)

\* truthiness of an optional number: present and not 0
TruthyNumber(o) == IsSome(o) /\ Get(o) # 0

\* a || b
OrString(a, b) == IF Truthy(a) THEN a ELSE b
OrNumber(a, b) == IF TruthyNumber(a) THEN a ELSE b

\* failure.errorStack || ''
stackOf(failure) == IF Truthy(failure.errorStack) THEN Get(failure.errorStack) ELSE <<>>

\* extractPatterns, for a failure whose errorMessage is a string (so that
\* parseStructuredError(undefined) yields undefined and lines 284-313 are
\* skipped).  failure.metadata || {} is the record with every field undefined.
\* A field that is truthy is kept (lines 316-347); the value extracted for
\* the others is joined to the field by || (lines 353-361).
extractPatterns(failure) ==
    [failure EXCEPT !.metadata =
        [@ EXCEPT
            !.errorSnippet  = IF Truthy(@) THEN @
                              ELSE OrString(extractErrorSnippet(stackOf(failure),
                                                                failure.errorMessage), @),
            !.lineNumber    = IF TruthyNumber(@) THEN @
                              ELSE OrNumber(extractLineNumber(stackOf(failure)), @),
            !.locator       = IF Truthy(@) THEN @
                              ELSE OrString(extractLocator(failure.errorMessage), @),
            !.matcher       = IF Truthy(@) THEN @
                              ELSE OrString(extractMatcher(failure.errorMessage), @),
            !.timeout       = IF TruthyNumber(@) THEN @
                              ELSE OrNumber(extractTimeout(failure.errorMessage), @),
            !.actualValue   = IF Truthy(@) THEN @
                              ELSE OrString(extractActualValue(failure.errorMessage), @),
            !.expectedValue = IF Truthy(@) THEN @
                              ELSE OrString(extractExpectedValue(failure.errorMessage), @),
            !.runId         = IF Truthy(@) \/ ~Truthy(failure.metadata.reportLink) THEN @
                              ELSE OrString(extractRunId(failure.metadata.reportLink), @),
            !.reportLink    = OrString(@, @)]]

\* parts.join('\n')
RECURSIVE joinLines(_)
joinLines(parts) ==
    IF Len(parts) = 0 THEN <<>>
    ELSE IF Len(parts) = 1 THEN parts[1]
    ELSE parts[1] \o <<"\n">> \o joinLines(Tail(parts))

\* a line where the field is set, whatever its value
StringPartWhenSet(label, o) == IF IsSome(o) THEN <<label \o Get(o)>> ELSE <<>>

\* one line of the context when the field is truthy, none otherwise
StringPart(label, o) == IF Truthy(o) THEN <<label \o Get(o)>> ELSE <<>>
QuotedPart(label, o) ==
    IF Truthy(o) THEN <<label \o <<"\"">> \o Get(o) \o <<"\"">> >> ELSE <<>>

createRichEmbeddingContext(failure) ==
    LET m == failure.metadata
    IN  joinLines(
            << <<"T", "e", "s", "t", ":", " ">> \o failure.testTitle, <<"F", "i", "l", "e", ":", " ">> \o failure.testFilePath >>
            \o StringPart(<<"P", "r", "o", "j", "e", "c", "t", ":", " ">>, m.projectName)
            \o StringPart(<<"S", "u", "i", "t", "e", ":", " ">>, m.suiteName)
            \o (IF TruthyNumber(m.lineNumber)
                THEN << <<"L", "i", "n", "e", ":", " ">> \o NumberToString(Get(m.lineNumber)) >> ELSE <<>>)
            \o StringPart(<<"L", "o", "c", "a", "t", "o", "r", ":", " ">>, m.locator)
            \o StringPart(<<"M", "a", "t", "c", "h", "e", "r", ":", " ">>, m.matcher)
            \o QuotedPart(<<"A", "c", "t", "u", "a", "l", ":", " ">>, m.actualValue)
            \o QuotedPart(<<"E", "x", "p", "e", "c", "t", "e", "d", ":", " ">>, m.expectedValue)
            \o (IF TruthyNumber(m.timeout)
                THEN << <<"T", "i", "m", "e", "o", "u", "t", ":", " ">> \o NumberToString(Get(m.timeout)) \o <<"m", "s">> >> ELSE <<>>)
            \o StringPart(<<"C", "o", "d", "e", ":", " ">>, m.errorSnippet)
            \o << <<"E", "r", "r", "o", "r", ":", " ">> \o failure.errorMessage >>)

---------------------------------------------------------------------------
(* extractPatterns for an errorMessage that is an object.  Such a failure  *)
(* carries, in place of the field errorMessage, the field errorObject: the *)
(* object's message, actual, expected, locator and matcher (optional       *)
(* strings), its timeout (an optional number), line (location.line, an     *)
(* optional number) and snippet (an optional array of strings; a string    *)
(* that is not empty is the array of that string).                         *)

HasStringMessage(failure) == "errorMessage" \in DOMAIN failure

\* \w+ from position p on, followed by the character closing: the positions
\* of the run, <<>> when it does not match
WordBefore(s, p, closing) ==
    LET last == RunEnd(s, p, IsWordChar)
    IN  IF last >= p /\ At(s, last + 1) = closing THEN <<p, last>> ELSE <<>>

\* /expect\((?:this\.)?(\w+)\)/ at i
ExpectAt(s, i) ==
    IF ~LiteralAt(s, i, <<"e", "x", "p", "e", "c", "t", "(">>) THEN <<>>
    ELSE IF LiteralAt(s, i + 7, <<"t", "h", "i", "s", ".">>) /\ WordBefore(s, i + 12, ")") # <<>>
    THEN WordBefore(s, i + 12, ")")
    ELSE WordBefore(s, i + 7, ")")

\* /\.(\w+)\(/ at i
CallAt(s, i) == IF s[i] = "." THEN WordBefore(s, i + 1, "(") ELSE <<>>

\* /\.\w+\(["']([^"']+)["']\)/ at i
CallArgumentAt(s, i) ==
    IF CallAt(s, i) = <<>> THEN <<>>
    ELSE LET quoted == QuotedFrom(s, CallAt(s, i)[2] + 2)
         IN  IF quoted # <<>> /\ At(s, quoted[2] + 2) = ")" THEN quoted ELSE <<>>

\* /timeout:\s*(\d+)/ at i
OptionTimeoutAt(s, i) ==
    LET digits == RunEnd(s, i + 8, IsSpace) + 1
    IN  IF LiteralAt(s, i, <<"t", "i", "m", "e", "o", "u", "t", ":">>) /\ IsDigit(At(s, digits))
        THEN <<digits, RunEnd(s, digits, IsDigit)>>
        ELSE <<>>

\* /Timed out (\d+)ms/ at i
TimedOutAt(s, i) ==
    LET last == RunEnd(s, i + 10, IsDigit)
    IN  IF /\ LiteralAt(s, i, <<"T", "i", "m", "e", "d", " ", "o", "u", "t", " ">>)
           /\ last >= i + 10
           /\ LiteralAt(s, last + 1, <<"m", "s">>)
        THEN <<i + 10, last>>
        ELSE <<>>

\* the number a capture of digits is parsed to
CaptureNumber(s, c) == IF c = <<>> THEN None ELSE Some(parseInt(SubSeq(s, c[1], c[2])))

\* extractAssertionFromSnippet (lines 213-251)
extractAssertionFromSnippet(snippet) ==
    LET e == FirstMatchIn({k \in 1..Len(snippet) : ExpectAt(snippet, k) # <<>>})
        c == FirstMatchIn({k \in 1..Len(snippet) : CallAt(snippet, k) # <<>>})
        a == FirstMatchIn({k \in 1..Len(snippet) : CallArgumentAt(snippet, k) # <<>>})
        t == FirstMatchIn({k \in 1..Len(snippet) : OptionTimeoutAt(snippet, k) # <<>>})
    IN  [ locator       |-> IF e = 0 THEN None ELSE Capture(snippet, ExpectAt(snippet, e)),
          matcher       |-> IF c = 0 THEN None ELSE Capture(snippet, CallAt(snippet, c)),
          expectedValue |-> IF a = 0 THEN None
                            ELSE Capture(snippet, CallArgumentAt(snippet, a)),
          timeout       |-> IF t = 0 THEN None
                            ELSE CaptureNumber(snippet, OptionTimeoutAt(snippet, t)) ]

\* parseStructuredError, lines 179-188: the timeout of the object when it is
\* a number, else the one its message names
structuredTimeout(errorMap) ==
    IF IsSome(errorMap.timeout) THEN errorMap.timeout
    ELSE IF ~Truthy(errorMap.message) THEN None
    ELSE LET s == Get(errorMap.message)
             i == FirstMatchIn({k \in 1..Len(s) : TimedOutAt(s, k) # <<>>})
         IN  IF i = 0 THEN None ELSE CaptureNumber(s, TimedOutAt(s, i))

\* lines 284-301: the values the object has take the place of the metadata's
structuredValues(metadata, errorMap) ==
    [ lineNumber    |-> IF TruthyNumber(errorMap.line) THEN errorMap.line
                        ELSE metadata.lineNumber,
      actualValue   |-> IF Truthy(errorMap.actual) THEN errorMap.actual
                        ELSE metadata.actualValue,
      expectedValue |-> IF Truthy(errorMap.expected) THEN errorMap.expected
                        ELSE metadata.expectedValue,
      locator       |-> IF Truthy(errorMap.locator) THEN errorMap.locator
                        ELSE metadata.locator,
      matcher       |-> IF Truthy(errorMap.matcher) THEN errorMap.matcher
                        ELSE metadata.matcher,
      timeout       |-> IF TruthyNumber(structuredTimeout(errorMap))
                        THEN structuredTimeout(errorMap)
                        ELSE metadata.timeout,
      errorSnippet  |-> IF ~IsSome(errorMap.snippet) THEN metadata.errorSnippet
                        ELSE IF Get(errorMap.snippet) = <<>> THEN None
                        ELSE Some(Get(errorMap.snippet)[1]) ]

\* lines 304-310: one turn of the loop over the snippets
applySnippet(values, assertion) ==
    [ values EXCEPT
        !.locator       = IF Truthy(assertion.locator) /\ ~Truthy(@)
                          THEN assertion.locator ELSE @,
        !.matcher       = IF Truthy(assertion.matcher) /\ ~Truthy(@)
                          THEN assertion.matcher ELSE @,
        !.expectedValue = IF Truthy(assertion.expectedValue) /\ ~Truthy(@)
                          THEN assertion.expectedValue ELSE @,
        !.timeout       = IF TruthyNumber(assertion.timeout) /\ ~TruthyNumber(@)
                          THEN assertion.timeout ELSE @ ]

RECURSIVE applySnippets(_, _)
applySnippets(values, snippets) ==
    IF snippets = <<>> THEN values
    ELSE applySnippets(applySnippet(values, extractAssertionFromSnippet(Head(snippets))),
                       Tail(snippets))

\* lines 316-364 once the object was applied.  A value that is still falsy
\* is looked for in failure.errorMessage: for the line number the stack is
\* searched, for the others errorMessage.match is called, which an object
\* does not have (TypeError).
structuredPatterns(failure, values) ==
    IF \/ ~Truthy(values.errorSnippet) \/ ~Truthy(values.locator)
       \/ ~Truthy(values.matcher) \/ ~TruthyNumber(values.timeout)
       \/ ~Truthy(values.actualValue) \/ ~Truthy(values.expectedValue)
    THEN [ threw |-> TRUE ]
    ELSE [ threw |-> FALSE,
           isArgument |-> FALSE,
           value |->
             [failure EXCEPT !.metadata =
                [@ EXCEPT
                   !.errorSnippet  = values.errorSnippet,
                   !.lineNumber    = IF TruthyNumber(values.lineNumber)
                                     THEN values.lineNumber
                                     ELSE OrNumber(extractLineNumber(stackOf(failure)), @),
                   !.locator       = values.locator,
                   !.matcher       = values.matcher,
                   !.timeout       = values.timeout,
                   !.actualValue   = values.actualValue,
                   !.expectedValue = values.expectedValue,
                   !.runId         = IF Truthy(@) \/ ~Truthy(failure.metadata.reportLink)
                                     THEN @
                                     ELSE OrString(extractRunId(failure.metadata.reportLink), @)]] ]

\* a call of extractPatterns on any failure: the TypeError it throws, or the
\* object it returns: its value, and whether it is the object that was passed
\* (lines 349-363: an object literal, with an object literal as metadata)
extractPatternsCall(failure) ==
    IF HasStringMessage(failure)
    THEN [ threw |-> FALSE, isArgument |-> FALSE, value |-> extractPatterns(failure) ]
    ELSE structuredPatterns(
            failure,
            applySnippets(structuredValues(failure.metadata, failure.errorObject),
                          IF IsSome(failure.errorObject.snippet)
                          THEN Get(failure.errorObject.snippet) ELSE <<>>))

---------------------------------------------------------------------------
(* Configuration and validation (types DEFAULT_CONFIG, validation.ts).     *)
(* A validator yields the message of the error it throws, <<>> when it     *)
(* returns.                                                                *)

DEFAULT_CONFIG ==
    [ clustering |-> [ epsilon        |-> [num |-> 3, den |-> 20],
                       minPoints      |-> 2,
                       minClusterSize |-> 2,
                       distance       |-> "cosine",
                       maxClusters    |-> Some(5) ],
      timeWindow |-> [ days |-> [num |-> 7, den |-> 1] ] ]

\* a key the caller's object does not carry keeps the default's value
Spread(default, given) == IF IsSome(given) THEN Get(given) ELSE default

\* { ...DEFAULT_CONFIG, ...config, clustering: {...}, timeWindow: {...} };
\* partial carries every key as an optional value
mergeConfig(partial) ==
    LET d == DEFAULT_CONFIG
    IN  [ clustering |->
            [ epsilon        |-> Spread(d.clustering.epsilon, partial.epsilon),
              minPoints      |-> Spread(d.clustering.minPoints, partial.minPoints),
              minClusterSize |-> Spread(d.clustering.minClusterSize, partial.minClusterSize),
              distance       |-> Spread(d.clustering.distance, partial.distance),
              maxClusters    |-> IF IsSome(partial.maxClusters) THEN partial.maxClusters
                                 ELSE d.clustering.maxClusters ],
          timeWindow |-> [ days |-> Spread(d.timeWindow.days, partial.days) ] ]

\* validateConfig.  epsilon and days are rationals [num, den] with den > 0.
\* lines 510-532: the tests of config.clustering
clusteringComplaint(c) ==
    IF c.epsilon.num <= 0
    THEN Some(<<"c", "l", "u", "s", "t", "e", "r", "i", "n", "g", ".", "e", "p", "s", "i", "l", "o", "n", " ", "m", "u", "s", "t", " ", "b", "e", " ", "g", "r", "e", "a", "t", "e", "r", " ", "t", "h", "a", "n", " ", "0">>)
    ELSE IF c.minPoints < 1
    THEN Some(<<"c", "l", "u", "s", "t", "e", "r", "i", "n", "g", ".", "m", "i", "n", "P", "o", "i", "n", "t", "s", " ", "m", "u", "s", "t", " ", "b", "e", " ", "a", "t", " ", "l", "e", "a", "s", "t", " ", "1">>)
    ELSE IF c.minClusterSize < 1
    THEN Some(<<"c", "l", "u", "s", "t", "e", "r", "i", "n", "g", ".", "m", "i", "n", "C", "l", "u", "s", "t", "e", "r", "S", "i", "z", "e", " ", "m", "u", "s", "t", " ", "b", "e", " ", "a", "t", " ", "l", "e", "a", "s", "t", " ", "1">>)
    ELSE IF IsSome(c.maxClusters) /\ Get(c.maxClusters) < 1
    THEN Some(<<"c", "l", "u", "s", "t", "e", "r", "i", "n", "g", ".", "m", "a", "x", "C", "l", "u", "s", "t", "e", "r", "s", " ", "m", "u", "s", "t", " ", "b", "e", " ", "a", "t", " ", "l", "e", "a", "s", "t", " ", "1", " ", "i", "f", " ", "s", "p", "e", "c", "i", "f", "i", "e", "d">>)
    ELSE IF c.distance # "euclidean" /\ c.distance # "cosine"
    THEN Some(<<"c", "l", "u", "s", "t", "e", "r", "i", "n", "g", ".", "d", "i", "s", "t", "a", "n", "c", "e", " ", "m", "u", "s", "t", " ", "b", "e", " ", "'", "e", "u", "c", "l", "i", "d", "e", "a", "n", "'", " ", "o", "r", " ", "'", "c", "o", "s", "i", "n", "e", "'">>)
    ELSE None

\* Number.isInteger(days)
IsInteger(days) == days.num % days.den = 0

\* lines 535-537: the test of config.timeWindow
timeWindowComplaint(t) ==
    IF t.days.num <= 0 \/ ~IsInteger(t.days)
    THEN Some(<<"t", "i", "m", "e", "W", "i", "n", "d", "o", "w", ".", "d", "a", "y", "s", " ", "m", "u", "s", "t", " ", "b", "e", " ", "a", " ", "p", "o", "s", "i", "t", "i", "v", "e", " ", "i", "n", "t", "e", "g", "e", "r">>)
    ELSE None

\* the tests of the clustering options without the test of the time window
validateClusteringOnly(cfg) == clusteringComplaint(cfg.clustering)

validateConfig(cfg) ==
    IF clusteringComplaint(cfg.clustering) # None THEN clusteringComplaint(cfg.clustering)
    ELSE timeWindowComplaint(cfg.timeWindow)

\* A value handed over by a collaborator is [isArray, items]: items are the
\* elements when it is an array.  A failure record carries its required
\* strings ('' when the field is missing: both are falsy) and either the
\* field timestamp, a valid instant, or the field badTimestamp naming what
\* stands in its place: an Invalid Date, or a value that is not a Date.
HasTimestamp(failure) == "timestamp" \in DOMAIN failure

\* the complaint about one record, <<>> when it passes (lines 552-574)
failureComplaint(failure) ==
    IF failure.id = <<>> THEN <<"i", "s", " ", "m", "i", "s", "s", "i", "n", "g", " ", "r", "e", "q", "u", "i", "r", "e", "d", " ", "f", "i", "e", "l", "d", ":", " ", "i", "d">>
    ELSE IF failure.testTitle = <<>> THEN <<"i", "s", " ", "m", "i", "s", "s", "i", "n", "g", " ", "r", "e", "q", "u", "i", "r", "e", "d", " ", "f", "i", "e", "l", "d", ":", " ", "t", "e", "s", "t", "T", "i", "t", "l", "e">>
    ELSE IF failure.testFilePath = <<>> THEN <<"i", "s", " ", "m", "i", "s", "s", "i", "n", "g", " ", "r", "e", "q", "u", "i", "r", "e", "d", " ", "f", "i", "e", "l", "d", ":", " ", "t", "e", "s", "t", "F", "i", "l", "e", "P", "a", "t", "h">>
    ELSE IF failure.errorMessage = <<>> THEN <<"i", "s", " ", "m", "i", "s", "s", "i", "n", "g", " ", "r", "e", "q", "u", "i", "r", "e", "d", " ", "f", "i", "e", "l", "d", ":", " ", "e", "r", "r", "o", "r", "M", "e", "s", "s", "a", "g", "e">>
    ELSE IF ~HasTimestamp(failure) /\ failure.badTimestamp # "Invalid Date"
    THEN <<"h", "a", "s", " ", "i", "n", "v", "a", "l", "i", "d", " ", "t", "i", "m", "e", "s", "t", "a", "m", "p", " ", "(", "m", "u", "s", "t", " ", "b", "e", " ", "a", " ", "D", "a", "t", "e", " ", "o", "b", "j", "e", "c", "t", ")">>
    ELSE IF ~HasTimestamp(failure)
    THEN <<"h", "a", "s", " ", "i", "n", "v", "a", "l", "i", "d", " ", "t", "i", "m", "e", "s", "t", "a", "m", "p", " ", "(", "I", "n", "v", "a", "l", "i", "d", " ", "D", "a", "t", "e", ")">>
    ELSE <<>>

\* the complaint about the last record that has one, in place of the first
validateFailuresFromTheEnd(failures) ==
    IF ~failures.isArray THEN Some(<<"f", "a", "i", "l", "u", "r", "e", "s", " ", "m", "u", "s", "t", " ", "b", "e", " ", "a", "n", " ", "a", "r", "r", "a", "y">>)
    ELSE LET bad == {i \in 1..Len(failures.items) : failureComplaint(failures.items[i]) # <<>>}
         IN  IF bad = {} THEN None
             ELSE LET i == Greatest(bad)
                  IN  Some(<<"f", "a", "i", "l", "u", "r", "e", " ", "a", "t", " ", "i", "n", "d", "e", "x", " ">> \o NumberToString(i - 1) \o <<" ">>
                           \o failureComplaint(failures.items[i]))

validateFailures(failures) ==
    IF ~failures.isArray THEN Some(<<"f", "a", "i", "l", "u", "r", "e", "s", " ", "m", "u", "s", "t", " ", "b", "e", " ", "a", "n", " ", "a", "r", "r", "a", "y">>)
    ELSE LET bad == {i \in 1..Len(failures.items) : failureComplaint(failures.items[i]) # <<>>}
         IN  IF bad = {} THEN None
             ELSE LET i == Least(bad)
                  IN  Some(<<"f", "a", "i", "l", "u", "r", "e", " ", "a", "t", " ", "i", "n", "d", "e", "x", " ">> \o NumberToString(i - 1) \o <<" ">>
                           \o failureComplaint(failures.items[i]))

\* An element of the embeddings is [isArray, v, notNumbers]: v are its
\* components and notNumbers the positions of v that hold NaN or a value that
\* is not a number (the integer written there is of no account).
\* the complaint about the element i without the test of its components
embeddingComplaintOfShape(e, i, firstLength) ==
    IF ~e.isArray
    THEN <<"e", "m", "b", "e", "d", "d", "i", "n", "g", " ", "a", "t", " ", "i", "n", "d", "e", "x", " ">> \o NumberToString(i - 1) \o <<" ", "i", "s", " ", "n", "o", "t", " ", "a", "n", " ", "a", "r", "r", "a", "y">>
    ELSE IF Len(e.v) # firstLength
    THEN <<"e", "m", "b", "e", "d", "d", "i", "n", "g", " ", "a", "t", " ", "i", "n", "d", "e", "x", " ">> \o NumberToString(i - 1) \o <<" ", "h", "a", "s", " ", "l", "e", "n", "g", "t", "h", " ">>
         \o NumberToString(Len(e.v)) \o <<",", " ", "e", "x", "p", "e", "c", "t", "e", "d", " ">> \o NumberToString(firstLength)
    ELSE <<>>

\* the complaint about the element i, <<>> when it passes (lines 593-607)
embeddingComplaint(e, i, firstLength) ==
    IF ~e.isArray
    THEN <<"e", "m", "b", "e", "d", "d", "i", "n", "g", " ", "a", "t", " ", "i", "n", "d", "e", "x", " ">> \o NumberToString(i - 1) \o <<" ", "i", "s", " ", "n", "o", "t", " ", "a", "n", " ", "a", "r", "r", "a", "y">>
    ELSE IF Len(e.v) # firstLength
    THEN <<"e", "m", "b", "e", "d", "d", "i", "n", "g", " ", "a", "t", " ", "i", "n", "d", "e", "x", " ">> \o NumberToString(i - 1) \o <<" ", "h", "a", "s", " ", "l", "e", "n", "g", "t", "h", " ">>
         \o NumberToString(Len(e.v)) \o <<",", " ", "e", "x", "p", "e", "c", "t", "e", "d", " ">> \o NumberToString(firstLength)
    ELSE IF e.notNumbers # {}
    THEN <<"e", "m", "b", "e", "d", "d", "i", "n", "g", " ", "a", "t", " ", "i", "n", "d", "e", "x", " ">> \o NumberToString(i - 1) \o <<",", " ", "d", "i", "m", "e", "n", "s", "i", "o", "n", " ">>
         \o NumberToString(Least(e.notNumbers) - 1) \o <<" ", "i", "s", " ", "n", "o", "t", " ", "a", " ", "v", "a", "l", "i", "d", " ", "n", "u", "m", "b", "e", "r">>
    ELSE <<>>

validateEmbeddings(embeddings) ==
    IF ~embeddings.isArray \/ Len(embeddings.items) = 0
    THEN Some(<<"e", "m", "b", "e", "d", "d", "i", "n", "g", "s", " ", "m", "u", "s", "t", " ", "b", "e", " ", "a", " ", "n", "o", "n", "-", "e", "m", "p", "t", "y", " ", "a", "r", "r", "a", "y">>)
    ELSE IF ~embeddings.items[1].isArray \/ Len(embeddings.items[1].v) = 0
    THEN Some(<<"e", "m", "b", "e", "d", "d", "i", "n", "g", "s", " ", "m", "u", "s", "t", " ", "c", "o", "n", "t", "a", "i", "n", " ", "n", "o", "n", "-", "e", "m", "p", "t", "y", " ", "a", "r", "r", "a", "y", "s">>)
    ELSE LET firstLength == Len(embeddings.items[1].v)
             bad == {i \in 1..Len(embeddings.items) :
                        embeddingComplaint(embeddings.items[i], i, firstLength) # <<>>}
         IN  IF bad = {} THEN None
             ELSE Some(embeddingComplaint(embeddings.items[Least(bad)], Least(bad),
                                          firstLength))

---------------------------------------------------------------------------
(* FlakinessDetective.detect (flakiness-detective.ts 65-158), cut at its   *)
(* awaits: what it does from the settling of one call to the next call.    *)

\* { ...failure, embedding }
withEmbedding(failure, embedding) ==
    [x \in DOMAIN failure \cup {"embedding"} |->
        IF x = "embedding" THEN embedding ELSE failure[x]]

\* failures.map((failure, index) => ({...failure, embedding: embeddings[index]})):
\* past the end of the provider's array embeddings[index] is undefined
attachEmbeddings(failures, embeddings) ==
    [i \in 1..Len(failures) |->
        IF i <= Len(embeddings.items)
        THEN withEmbedding(failures[i], embeddings.items[i].v)
        ELSE failures[i]]

\* embedFailures up to its await (lines 136-145): generateEmbeddings is called
\* with the contexts of the enhanced failures
embedFailures(failures) ==
    [ next             |-> "generateEmbeddings",
      enhancedFailures |-> failures,
      contexts         |-> [i \in 1..Len(failures) |->
                               createRichEmbeddingContext(failures[i])] ]

\* lines 82-94: the pass throws what validateFailures complains about, or
\* extracts the patterns of every failure and embeds them
detectValidated(failures, complaint) ==
    IF complaint # None
    THEN [ next |-> "throw", error |-> Get(complaint) ]
    ELSE embedFailures([i \in 1..Len(failures.items) |->
                           extractPatterns(failures.items[i])])

\* the pass without the return of line 75
detectAfterFetchOfAny(failures) == detectValidated(failures, validateFailures(failures))

\* lines 73-94 and 136-145, from the value of fetchFailures on: the pass
\* returns [], throws, or calls generateEmbeddings with the contexts
detectAfterFetch(failures) ==
    IF failures.isArray /\ Len(failures.items) = 0
    THEN [ next |-> "return" ]
    ELSE detectValidated(failures, validateFailures(failures))

\* lines 105-118: the pass throws when clusterFailures does, or calls
\* saveClusters with the clusters
detectClustered(embedded, clusters) ==
    [ next             |-> IF clusters.threw THEN "throw" ELSE "saveClusters",
      clustered        |-> TRUE,
      error            |-> <<"c", "l", "u", "s", "t", "e", "r", "F", "a", "i", "l", "u", "r", "e", "s", " ", "t", "h", "r", "e", "w">>,
      embeddedFailures |-> embedded,
      out              |-> clusters ]

\* embedFailures from its await on (lines 146-157), then lines 94-118: the
\* pass throws what validateEmbeddings complains about, or clusters the
\* failures with their embeddings
embedFailuresReturn(enhanced, embeddings, complaint, clustering, date) ==
    IF complaint # None
    THEN [ next |-> "throw", clustered |-> FALSE, error |-> Get(complaint) ]
    ELSE detectClustered(attachEmbeddings(enhanced, embeddings),
                         clusterFailures(attachEmbeddings(enhanced, embeddings),
                                         clustering, date))

\* detectAfterEmbeddings with validateEmbeddings left out
detectAfterEmbeddingsUnvalidated(enhanced, embeddings, clustering, date) ==
    embedFailuresReturn(enhanced, embeddings, None, clustering, date)

\* lines 146-157 and 94-118, from the value of generateEmbeddings on: the
\* pass throws, or calls saveClusters with the clusters
detectAfterEmbeddings(enhanced, embeddings, clustering, date) ==
    embedFailuresReturn(enhanced, embeddings, validateEmbeddings(embeddings),
                        clustering, date)

---------------------------------------------------------------------------
(* MockEmbeddingProvider (mock-provider.ts).  A 32-bit integer is the pair *)
(* <<high, low>> of its 16-bit halves, in two's complement.                *)

\* the characters of code 32 to 126, in the order of their codes
Printable ==
    << " ", "!", "\"", "#", "$", "%", "&", "'", "(", ")", "*", "+",
       ",", "-", ".", "/", "0", "1", "2", "3", "4", "5", "6", "7",
       "8", "9", ":", ";", "<", "=", ">", "?", "@", "A", "B", "C",
       "D", "E", "F", "G", "H", "I", "J", "K", "L", "M", "N", "O",
       "P", "Q", "R", "S", "T", "U", "V", "W", "X", "Y", "Z", "[",
       "\\", "]", "^", "_", Backtick, "a", "b", "c", "d", "e", "f", "g",
       "h", "i", "j", "k", "l", "m", "n", "o", "p", "q", "r", "s",
       "t", "u", "v", "w", "x", "y", "z", "{", "|", "}", "~" >>

\* String.prototype.charCodeAt for a character of the texts
charCodeAt(c) ==
    IF c = "\n" THEN 10
    ELSE IF c = "\t" THEN 9
    ELSE 31 + (CHOOSE k \in 1..Len(Printable) : Printable[k] = c)

HalfWord == 65536

\* lines 62-63: hash = (hash << 5) - hash + char; hash |= 0, which is
\* 31 * hash + char reduced to 32 bits
hashStep(hash, char) ==
    << (31 * hash[1] + ((31 * hash[2] + char) \div HalfWord)) % HalfWord,
       (31 * hash[2] + char) % HalfWord >>

\* Math.abs of a 32-bit integer (of -2^31 it is 2^31)
abs32(hash) ==
    IF hash[1] < HalfWord \div 2 THEN hash
    ELSE << (HalfWord - hash[1] - (IF hash[2] = 0 THEN 0 ELSE 1)) % HalfWord,
            (HalfWord - hash[2]) % HalfWord >>

\* the loop of lines 60-64 over the characters at the positions from..to,
\* the first half of them before the second (a half stays below HalfWord)
RECURSIVE hashOver(_, _, _, _)
hashOver(hash, str, from, to) ==
    IF from > to THEN hash
    ELSE IF from = to THEN hashStep(hash, charCodeAt(str[from]))
    ELSE LET half == hashOver(hash, str, from, (from + to) \div 2)
         IN  IF half[1] < HalfWord
             THEN hashOver(half, str, (from + to) \div 2 + 1, to)
             ELSE half

simpleHash(str) == abs32(hashOver(<<0, 0>>, str, 1, Len(str)))

\* generateMockEmbedding with a vector that depends on the passes made
generateMockEmbeddingByPass(text) ==
    IF passes = <<>>
    THEN [isArray |-> TRUE, v |-> mock[simpleHash(text)], notNumbers |-> {}]
    ELSE [isArray |-> TRUE, v |-> <<1, 0>>, notNumbers |-> {}]

\* generateMockEmbedding: a vector computed from the hash alone, normalised
\* to unit length.  The components Math.sin(hash * (i + 1)) yields are not
\* computed: mock holds a unit vector for every hash, the same for the whole
\* life of the provider.  For the hash 0 every component is 0 and the
\* magnitude is 0: the normalised components are 0 / 0, NaN.
generateMockEmbedding(text) ==
    IF simpleHash(text) = <<0, 0>>
    THEN [isArray |-> TRUE, v |-> <<0, 0>>, notNumbers |-> {1, 2}]
    ELSE [isArray |-> TRUE, v |-> mock[simpleHash(text)], notNumbers |-> {}]

\* MockEmbeddingProvider.generateEmbeddings: texts.map(...)
generateEmbeddings(texts) ==
    [isArray |-> TRUE,
     items   |-> [i \in 1..Len(texts) |-> generateMockEmbedding(texts[i])]]

---------------------------------------------------------------------------
(* Inputs of the calls                                                     *)

MaxPoints  == 3     \* failures of an input drawn point by point
MaxMany    == 11    \* failures of an input made of isolated groups
MaxMembers == 4     \* members of a one-cluster input

\* metadata with every field undefined (also: no metadata object)
NoMetadata ==
    [ errorSnippet |-> None, lineNumber |-> None, projectName |-> None,
      suiteName |-> None, locator |-> None, matcher |-> None, timeout |-> None,
      actualValue |-> None, expectedValue |-> None, runId |-> None,
      reportLink |-> None ]

\* the metadata the repository's tests give a failure (createEmbeddedFailure)
TestMetadata ==
    [ NoMetadata EXCEPT !.lineNumber = Some(10), !.locator = Some(<<"b", "u", "t", "t", "o", "n">>),
                         !.matcher = Some(<<"t", "o", "B", "e", "V", "i", "s", "i", "b", "l", "e">>) ]

ErrorWord == <<"E", "r", "r", "o", "r", ":", " ">>
\* 'Error: '.repeat(...) cut to n characters
MessageOfLength(n) == [i \in 1..n |-> ErrorWord[((i - 1) % Len(ErrorWord)) + 1]]

\* timestamps count milliseconds from new Date('2024-01-01'), the instant the
\* repository's tests give every failure (TLC's integers have 32 bits)

EmbeddedFailure(n, embedding, timestamp, message, metadata) ==
    [ id           |-> <<"f">> \o NumberToString(n),
      testTitle    |-> <<"T", "e", "s", "t", " ">> \o NumberToString(n),
      testFilePath |-> <<"t", "e", "s", "t", ".", "s", "p", "e", "c", ".", "t", "s">>,
      errorMessage |-> message,
      timestamp    |-> timestamp,
      metadata     |-> metadata,
      embedding    |-> embedding ]

Dates    == { [year |-> 2024, month |-> 1, day |-> 5],
              [year |-> 2025, month |-> 12, day |-> 31] }

\* (a) geometry: up to MaxPoints points of the plane (a zero vector among them)
Vectors == { <<1, 0>>, <<2, 1>>, <<1, 1>>, <<0, 1>>, <<0, 0>> }

GeometryInputs ==
    UNION { { [i \in 1..n |-> EmbeddedFailure(i, e[i], 0, MessageOfLength(5), TestMetadata)]
              : e \in [1..n -> Vectors] } : n \in 0..MaxPoints }

GeometryOptions ==
    [ epsilon : { [num |-> 3, den |-> 20], [num |-> 3, den |-> 2] },
      minPoints : {1, 2, 3}, minClusterSize : {1, 2},
      distance : {"cosine", "euclidean"}, maxClusters : {None, Some(1)} ]

\* (b) many isolated groups: failure i lies on the axis of its group, and the
\* groups' sizes repeat a pattern (as the pairs of the maxClusters test do)
OneHot(g, dim) == [j \in 1..dim |-> IF j = g THEN 1 ELSE 0]

RECURSIVE GroupLabels(_, _, _, _)
GroupLabels(n, pattern, g, left) ==
    IF n = 0 THEN <<>>
    ELSE IF left = 0
         THEN GroupLabels(n, pattern, g + 1, pattern[(g % Len(pattern)) + 1])
         ELSE <<g>> \o GroupLabels(n - 1, pattern, g, left - 1)

SizePatterns == { <<1>>, <<2>>, <<1, 2>>, <<3, 1, 2>> }

GroupInputs ==
    UNION { { LET lab == GroupLabels(n, p, 1, p[1])
              IN  [i \in 1..n |-> EmbeddedFailure(i, OneHot(lab[i], MaxMany + 1), 0,
                                                  MessageOfLength(5), TestMetadata)]
              : p \in SizePatterns } : n \in 0..MaxMany }

GroupOptions ==
    [ epsilon : { [num |-> 3, den |-> 10] },
      minPoints : {1, 2}, minClusterSize : {1, 2},
      distance : {"cosine", "euclidean"},
      maxClusters : {None, Some(0), Some(3), Some(20)} ]

\* (c) one cluster whose members differ in their pattern fields
Profiles ==
    { [ file |-> <<"a", ".", "s", "p", "e", "c", ".", "t", "s">>,
        metadata |-> [ NoMetadata EXCEPT !.lineNumber = Some(42),
                         !.locator = Some(<<"c", "o", "m", "m", "o", "n", "B", "u", "t", "t", "o", "n">>),
                         !.matcher = Some(<<"t", "o", "B", "e", "V", "i", "s", "i", "b", "l", "e">>),
                         !.timeout = Some(5000), !.errorSnippet = Some(<<"a", "w", "a", "i", "t", " ", "x">>),
                         !.runId = Some(<<"1", "2", "3">>) ] ],
      [ file |-> <<"a", ".", "s", "p", "e", "c", ".", "t", "s">>,
        metadata |-> [ NoMetadata EXCEPT !.lineNumber = Some(99),
                         !.locator = Some(<<"d", "i", "f", "f", "e", "r", "e", "n", "t", "B", "u", "t", "t", "o", "n">>),
                         !.matcher = Some(<<"t", "o", "H", "a", "v", "e", "T", "e", "x", "t">>),
                         !.timeout = Some(0) ] ],
      [ file |-> <<"b", ".", "s", "p", "e", "c", ".", "t", "s">>,
        metadata |-> [ NoMetadata EXCEPT !.locator = Some(<<"c", "o", "n", "s", "t", "r", "u", "c", "t", "o", "r">>),
                         !.matcher = Some(<<"t", "o", "B", "e", "V", "i", "s", "i", "b", "l", "e">>),
                         !.errorSnippet = Some(<<>>) ] ],
      [ file |-> <<"b", ".", "s", "p", "e", "c", ".", "t", "s">>, metadata |-> NoMetadata ],
      [ file |-> <<"b", ".", "s", "p", "e", "c", ".", "t", "s">>,
        metadata |-> [ NoMetadata EXCEPT !.locator = Some(<<"c", "o", "m", "m", "o", "n", "B", "u", "t", "t", "o", "n">>) ] ] }

PatternInputs ==
    UNION { { [i \in 1..n |->
                 [ EmbeddedFailure(i, <<1, 0>>, 0, MessageOfLength(5), pr[i].metadata)
                   EXCEPT !.testFilePath = pr[i].file ]]
              : pr \in [1..n -> Profiles] } : n \in 1..MaxMembers }

\* (d) one cluster whose members differ in their timestamps
Timestamps == { 0, 1000, 3600000 }

TimeInputs ==
    UNION { { [i \in 1..n |-> EmbeddedFailure(i, <<1, 0>>, t[i], MessageOfLength(5),
                                              TestMetadata)]
              : t \in [1..n -> Timestamps] } : n \in 1..MaxMembers }

\* (e) one cluster whose members differ in the length of their message
MessageLengths == {1, 199, 200, 201, 1000}

MessageInputs ==
    UNION { { [i \in 1..n |-> EmbeddedFailure(i, <<1, 0>>, 0, MessageOfLength(l[i]),
                                              TestMetadata)]
              : l \in [1..n -> MessageLengths] } : n \in 1..2 }

OneClusterOptions ==
    [ epsilon : { [num |-> 3, den |-> 10] }, minPoints : {1, 2}, minClusterSize : {1},
      distance : {"cosine"}, maxClusters : {None} ]

---------------------------------------------------------------------------
(* The calls of clusterFailures                                            *)

NotCalled == [threw |-> FALSE, clusters |-> <<>>]

\* the promise of detect(): no pass yet, pending, fulfilled with the clusters,
\* or rejected with the error
NoPass   == [status |-> "none", clusters |-> <<>>, error |-> <<>>]
Pending  == [status |-> "pending", clusters |-> <<>>, error |-> <<>>]
Returned(clusters) == [status |-> "returned", clusters |-> clusters, error |-> <<>>]
Rejected(error)    == [status |-> "rejected", clusters |-> <<>>, error |-> error]

InitCluster ==
    /\ \/ /\ embeddedFailures \in GeometryInputs
          /\ options \in GeometryOptions
          /\ today = [year |-> 2024, month |-> 1, day |-> 5]
       \/ /\ embeddedFailures \in GroupInputs
          /\ options \in GroupOptions
          /\ today \in Dates
       \/ /\ embeddedFailures \in PatternInputs \cup TimeInputs \cup MessageInputs
          /\ options \in OneClusterOptions
          /\ today \in Dates
    /\ out = NotCalled
    /\ called = FALSE
    /\ config = [DEFAULT_CONFIG EXCEPT !.clustering = options]
    /\ pc = "idle"
    /\ enhancedFailures = <<>>
    /\ calls = <<>>
    /\ store = <<>>
    /\ result = NoPass
    /\ mock = <<>>
    /\ passes = <<>>
    /\ argument = <<>>
    /\ answer = <<>>
    /\ genai = <<>>
    /\ running = <<>>

\* clusterFailures(embeddedFailures, options)
ClusterCall ==
    /\ ~called
    /\ called' = TRUE
    /\ out' = clusterFailures(embeddedFailures, options, today)
    /\ UNCHANGED <<embeddedFailures, options, today>>
    /\ UNCHANGED detective

NextCluster == ClusterCall

SpecCluster == InitCluster /\ [][NextCluster]_vars

---------------------------------------------------------------------------
(* InMemoryAdapter (in-memory-adapter.ts): the clusters it holds, and      *)
(* FlakinessDetective.getClusters over it.  A limit is an optional number. *)

\* saveClusters(clusters), line 58: this.clusters = [...clusters]
saveClustersAppending(held, clusters) == held \o clusters

saveClusters(held, clusters) == clusters

\* Array.prototype.slice(0, end)
sliceFromStart(a, end) ==
    IF end >= 0 THEN SubSeq(a, 1, IF end < Len(a) THEN end ELSE Len(a))
    ELSE SubSeq(a, 1, IF Len(a) + end > 0 THEN Len(a) + end ELSE 0)

\* fetchClusters(limit), line 67
fetchClusters(held, limit) ==
    IF TruthyNumber(limit) THEN sliceFromStart(held, Get(limit)) ELSE held

\* getClusters(limit), flakiness-detective.ts 128-130
getClusters(limit) == fetchClusters(store, limit)

---------------------------------------------------------------------------
(* The passes of one FlakinessDetective                                    *)

MaxFailures == 3    \* failures the data adapter hands over in one pass

TestFailure(n, message, stack, timestamp, metadata) ==
    [ id           |-> <<"f">> \o NumberToString(n),
      testTitle    |-> <<"T", "e", "s", "t", " ">> \o NumberToString(n),
      testFilePath |-> <<"t", "e", "s", "t", ".", "s", "p", "e", "c", ".", "t", "s">>,
      errorMessage |-> message,
      errorStack   |-> stack,
      timestamp    |-> timestamp,
      metadata     |-> metadata ]

\* the n-th failure of the adapter: three kinds in turn
SampleFailure(n) ==
    CASE n % 3 = 1 ->
           TestFailure(n, <<"E", "r", "r", "o", "r", ":", " ", "T", "i", "m", "e", "o", "u", "t", " ", "5", "0", "0", "0", "m", "s", " ", "e", "x", "c", "e", "e", "d", "e", "d", ".", " ", "l", "o", "c", "a", "t", "o", "r", "(", "\"", "b", "u", "t", "t", "o", "n", ".", "s", "u", "b", "m", "i", "t", "\"", ")">>,
                       Some(<<"a", "t", " ", "t", "e", "s", "t", ".", "s", "p", "e", "c", ".", "t", "s", ":", "4", "2", ":", "1", "0", "\n", " ", " ", "a", "t", " ", "r", "u", "n", " ", "(", ")">>), 0, NoMetadata)
      [] n % 3 = 2 ->
           TestFailure(n, <<"E", "r", "r", "o", "r", ":", " ", "e", "x", "p", "e", "c", "t", "(", "e", "l", "e", "m", "e", "n", "t", ")", ".", "t", "o", "B", "e", "V", "i", "s", "i", "b", "l", "e", "(", ")", " ", "f", "a", "i", "l", "e", "d">>, None, 1000,
                       [NoMetadata EXCEPT
                          !.reportLink = Some(<<"h", "t", "t", "p", "s", ":", "/", "/", "g", "i", "t", "h", "u", "b", ".", "c", "o", "m", "/", "o", "r", "g", "/", "r", "e", "p", "o", "/", "a", "c", "t", "i", "o", "n", "s", "/", "r", "u", "n", "s", "/", "1", "2", "3", "4", "5", "6">>),
                          !.timeout = Some(0)])
      [] n % 3 = 0 ->
           TestFailure(n, <<"E", "x", "p", "e", "c", "t", "e", "d", ":", " ", "\"", "H", "e", "l", "l", "o", "\"", " ", "b", "u", "t", " ", "r", "e", "c", "e", "i", "v", "e", "d", ":", " ", "\"", "G", "o", "o", "d", "b", "y", "e", "\"">>, Some(<<>>),
                       3600000, TestMetadata)

\* the record with, in place of its timestamp, a value that is no instant
WithoutTimestamp(failure, what) ==
    [x \in (DOMAIN failure \ {"timestamp"}) \cup {"badTimestamp"} |->
        IF x = "badTimestamp" THEN what ELSE failure[x]]

BrokenFailures(failure) ==
    { [failure EXCEPT !.id = <<>>],
      [failure EXCEPT !.errorMessage = <<>>],
      WithoutTimestamp(failure, "Invalid Date"),
      WithoutTimestamp(failure, "string") }

ArrayOf(items) == [isArray |-> TRUE, items |-> items]
NotAnArray     == [isArray |-> FALSE, items |-> <<>>]

SampleFailures(n) == [i \in 1..n |-> SampleFailure(i)]

\* what fetchFailures may resolve with
FetchValues ==
    { ArrayOf(SampleFailures(n)) : n \in 0..MaxFailures }
    \cup UNION { { ArrayOf([SampleFailures(n) EXCEPT ![n] = b])
                   : b \in BrokenFailures(SampleFailure(n)) } : n \in 1..MaxFailures }
    \cup { NotAnArray }

Entry(v) == [isArray |-> TRUE, v |-> v, notNumbers |-> {}]
EmbeddingVectors == { <<1, 0>>, <<0, 1>> }

\* what generateEmbeddings may resolve with for n contexts: a vector each, or
\* fewer or more vectors, a vector of another length, a component that is
\* not a number or is infinite, an element that is no array, a value that is
\* no array
EmbeddingValues(n) ==
    { ArrayOf(e) : e \in [1..n -> {Entry(v) : v \in EmbeddingVectors}] }
    \cup { ArrayOf([i \in 1..k |-> Entry(<<1, 0>>)]) : k \in 0..(n + 1) }
    \cup { ArrayOf([i \in 1..n |-> IF i = n THEN bad ELSE Entry(<<1, 0>>)])
           : bad \in { Entry(<<1, 0, 0>>),
                       Entry(<<>>),
                       [Entry(<<1, 0>>) EXCEPT !.notNumbers = {2}],
                       Entry(<<1, Infinity>>),
                       Entry(<<0 - Infinity, 0>>),
                       [isArray |-> FALSE, v |-> <<>>, notNumbers |-> {}] } }
    \cup { NotAnArray }

NoOverrides ==
    [ epsilon |-> None, minPoints |-> None, minClusterSize |-> None,
      distance |-> None, maxClusters |-> None, days |-> None ]

\* the config argument of the constructor
PartialConfigs ==
    { NoOverrides,
      [NoOverrides EXCEPT !.minPoints = Some(1), !.minClusterSize = Some(1)],
      [NoOverrides EXCEPT !.epsilon = Some([num |-> 3, den |-> 2]),
                          !.distance = Some("euclidean"), !.minPoints = Some(1),
                          !.minClusterSize = Some(1), !.maxClusters = Some(1)],
      [NoOverrides EXCEPT !.epsilon = Some([num |-> 0 - 1, den |-> 10])],
      [NoOverrides EXCEPT !.maxClusters = Some(0)],
      [NoOverrides EXCEPT !.days = Some([num |-> 0, den |-> 1])] }

Call(op, arg) == [op |-> op, arg |-> arg, outcome |-> "pending", value |-> <<>>]

\* the log with its last call settled and, when it rejected, made again
SettleAndRetry(log, outcome, value) ==
    LET settled == [log EXCEPT ![Len(log)] = [@ EXCEPT !.outcome = outcome, !.value = value]]
    IN  IF outcome = "rejected"
        THEN Append(settled, Call(log[Len(log)].op, log[Len(log)].arg))
        ELSE settled

\* the log with its last call settled
Settle(log, outcome, value) ==
    [log EXCEPT ![Len(log)] = [@ EXCEPT !.outcome = outcome, !.value = value]]

\* the state once the constructor has returned: it throws when validateConfig
\* complains about the merged configuration
Init ==
    /\ \E partial \in PartialConfigs :
          /\ validateConfig(mergeConfig(partial)) = None
          /\ config = mergeConfig(partial)
    /\ options = config.clustering
    /\ today \in Dates
    /\ embeddedFailures = <<>>
    /\ out = NotCalled
    /\ called = FALSE
    /\ pc = "idle"
    /\ enhancedFailures = <<>>
    /\ calls = <<>>
    /\ store = <<>>
    /\ result = NoPass
    /\ mock = <<>>
    /\ passes = <<>>
    /\ argument = <<>>
    /\ answer = <<>>
    /\ genai = <<>>
    /\ running = <<>>

\* detect() is called: line 71, the call of fetchFailures
Detect ==
    /\ pc = "idle"
    /\ UNCHANGED outsideDetect
    /\ pc' = "fetchFailures"
    /\ calls' = <<Call("fetchFailures", config.timeWindow.days)>>
    /\ result' = Pending
    /\ enhancedFailures' = <<>>
    /\ embeddedFailures' = <<>>
    /\ out' = NotCalled
    /\ called' = FALSE
    /\ UNCHANGED <<config, options, today, store>>

\* fetchFailures rejects: so does detect
FetchRejects ==
    /\ pc = "fetchFailures"
    /\ UNCHANGED outsideDetect
    /\ pc' = "idle"
    /\ calls' = Settle(calls, "rejected", <<"f", "e", "t", "c", "h", "F", "a", "i", "l", "u", "r", "e", "s", " ", "f", "a", "i", "l", "e", "d">>)
    /\ result' = Rejected(<<"f", "e", "t", "c", "h", "F", "a", "i", "l", "u", "r", "e", "s", " ", "f", "a", "i", "l", "e", "d">>)
    /\ UNCHANGED <<config, options, today, store, enhancedFailures,
                   embeddedFailures, out, called>>

\* fetchFailures resolves: lines 72-94 and 136-145
FetchResolves ==
    /\ pc = "fetchFailures"
    /\ UNCHANGED outsideDetect
    /\ \E value \in FetchValues :
       \E step \in {detectAfterFetch(value)} :
          LET log == Settle(calls, "resolved", value)
          IN  CASE step.next = "return" ->
                     /\ pc' = "idle"
                     /\ calls' = log
                     /\ result' = Returned(<<>>)
                     /\ UNCHANGED enhancedFailures
                [] step.next = "throw" ->
                     /\ pc' = "idle"
                     /\ calls' = log
                     /\ result' = Rejected(step.error)
                     /\ UNCHANGED enhancedFailures
                [] step.next = "generateEmbeddings" ->
                     /\ pc' = "generateEmbeddings"
                     /\ calls' = Append(log, Call("generateEmbeddings", step.contexts))
                     /\ enhancedFailures' = step.enhancedFailures
                     /\ UNCHANGED result
    /\ UNCHANGED <<config, options, today, store, embeddedFailures, out, called>>

\* generateEmbeddings rejects: so do embedFailures and detect
EmbeddingsReject ==
    /\ pc = "generateEmbeddings"
    /\ UNCHANGED outsideDetect
    /\ pc' = "idle"
    /\ calls' = Settle(calls, "rejected", <<"g", "e", "n", "e", "r", "a", "t", "e", "E", "m", "b", "e", "d", "d", "i", "n", "g", "s", " ", "f", "a", "i", "l", "e", "d">>)
    /\ result' = Rejected(<<"g", "e", "n", "e", "r", "a", "t", "e", "E", "m", "b", "e", "d", "d", "i", "n", "g", "s", " ", "f", "a", "i", "l", "e", "d">>)
    /\ UNCHANGED <<config, options, today, store, enhancedFailures,
                   embeddedFailures, out, called>>

\* generateEmbeddings resolves: lines 146-157 and 94-118
EmbeddingsResolve ==
    /\ pc = "generateEmbeddings"
    /\ UNCHANGED outsideDetect
    /\ \E value \in EmbeddingValues(Len(enhancedFailures)) :
       \E step \in {detectAfterEmbeddings(enhancedFailures, value,
                                           config.clustering, today)} :
          LET log == Settle(calls, "resolved", value)
          IN  /\ called' = step.clustered
              /\ IF step.clustered
                 THEN embeddedFailures' = step.embeddedFailures /\ out' = step.out
                 ELSE UNCHANGED <<embeddedFailures, out>>
              /\ IF step.next = "throw"
                 THEN /\ pc' = "idle"
                      /\ calls' = log
                      /\ result' = Rejected(step.error)
                 ELSE /\ pc' = "saveClusters"
                      /\ calls' = Append(log, Call("saveClusters", step.out.clusters))
                      /\ UNCHANGED result
    /\ UNCHANGED <<config, options, today, store, enhancedFailures>>

\* saveClusters rejects: so does detect.  What the store then holds is the
\* adapter's affair: what it held, or the clusters it was given.
SaveRejects ==
    /\ pc = "saveClusters"
    /\ UNCHANGED outsideDetect
    /\ pc' = "idle"
    /\ calls' = Settle(calls, "rejected", <<"s", "a", "v", "e", "C", "l", "u", "s", "t", "e", "r", "s", " ", "f", "a", "i", "l", "e", "d">>)
    /\ result' = Rejected(<<"s", "a", "v", "e", "C", "l", "u", "s", "t", "e", "r", "s", " ", "f", "a", "i", "l", "e", "d">>)
    /\ store' \in {store, saveClusters(store, out.clusters)}
    /\ UNCHANGED <<config, options, today, enhancedFailures, embeddedFailures,
                   out, called>>

\* saveClusters resolves (in-memory-adapter.ts 57-60: this.clusters =
\* [...clusters]); lines 119-122, detect returns the clusters
SaveResolves ==
    /\ pc = "saveClusters"
    /\ UNCHANGED outsideDetect
    /\ pc' = "idle"
    /\ calls' = Settle(calls, "resolved", <<>>)
    /\ store' = saveClusters(store, out.clusters)
    /\ result' = Returned(out.clusters)
    /\ UNCHANGED <<config, options, today, enhancedFailures, embeddedFailures,
                   out, called>>

Next ==
    \/ Detect
    \/ FetchRejects
    \/ FetchResolves
    \/ EmbeddingsReject
    \/ EmbeddingsResolve
    \/ SaveRejects
    \/ SaveResolves

Spec == Init /\ [][Next]_vars

---------------------------------------------------------------------------
(* Passes of one FlakinessDetective over an in-memory store and a          *)
(* MockEmbeddingProvider: neither collaborator rejects.  A pass that ends  *)
(* is recorded in passes with its input, the date of its call of           *)
(* clusterFailures and the way it settled.                                 *)

MaxPasses == 2

Reverse(s) == [i \in 1..Len(s) |-> s[Len(s) + 1 - i]]

\* what fetchFailures resolves with in these passes: valid records, in two
\* orders
MockFetchValues ==
    { ArrayOf(SampleFailures(n)) : n \in 0..MaxFailures }
    \cup { ArrayOf(Reverse(SampleFailures(n))) : n \in 2..MaxFailures }

\* the hashes of the texts the provider is asked to embed
MockHashes ==
    { simpleHash(createRichEmbeddingContext(extractPatterns(SampleFailure(n))))
      : n \in 1..MaxFailures }

Pass(input, date, settled) == [input |-> input, date |-> date, result |-> settled]

InitMock ==
    /\ \E partial \in PartialConfigs :
          /\ validateConfig(mergeConfig(partial)) = None
          /\ config = mergeConfig(partial)
    /\ options = config.clustering
    /\ today \in Dates
    /\ embeddedFailures = <<>>
    /\ out = NotCalled
    /\ called = FALSE
    /\ pc = "idle"
    /\ enhancedFailures = <<>>
    /\ calls = <<>>
    /\ store = <<>>
    /\ result = NoPass
    /\ mock \in [MockHashes -> EmbeddingVectors]
    /\ passes = <<>>
    /\ argument = <<>>
    /\ answer = <<>>
    /\ genai = <<>>
    /\ running = <<>>

\* detect() is called: line 71, the call of fetchFailures
MockDetect ==
    /\ pc = "idle"
    /\ UNCHANGED outsideMock
    /\ Len(passes) < MaxPasses
    /\ pc' = "fetchFailures"
    /\ calls' = <<Call("fetchFailures", config.timeWindow.days)>>
    /\ result' = Pending
    /\ enhancedFailures' = <<>>
    /\ embeddedFailures' = <<>>
    /\ out' = NotCalled
    /\ called' = FALSE
    /\ UNCHANGED <<config, options, today, store, mock, passes>>

\* fetchFailures resolves: lines 72-94 and 136-145
MockFetchResolves ==
    /\ pc = "fetchFailures"
    /\ UNCHANGED outsideMock
    /\ \E value \in MockFetchValues :
       \E step \in {detectAfterFetch(value)} :
          IF step.next = "generateEmbeddings"
          THEN /\ pc' = "generateEmbeddings"
               /\ calls' = Append(Settle(calls, "resolved", value),
                                  Call("generateEmbeddings", step.contexts))
               /\ enhancedFailures' = step.enhancedFailures
               /\ UNCHANGED <<result, passes>>
          ELSE /\ pc' = "idle"
               /\ calls' = Settle(calls, "resolved", value)
               /\ result' = IF step.next = "return" THEN Returned(<<>>)
                            ELSE Rejected(step.error)
               /\ passes' = Append(passes, Pass(value, today, result'))
               /\ UNCHANGED enhancedFailures
    /\ UNCHANGED <<config, options, today, store, embeddedFailures, out, called, mock>>

\* generateEmbeddings resolves with the vectors of the mock provider: lines
\* 146-157 and 94-118; new Date() of clusterFailures yields the date
MockEmbeddingsResolve ==
    /\ pc = "generateEmbeddings"
    /\ UNCHANGED outsideMock
    /\ today' \in Dates
    /\ \E value \in {generateEmbeddings(calls[Len(calls)].arg)} :
       \E step \in {detectAfterEmbeddings(enhancedFailures, value,
                                          config.clustering, today')} :
          /\ called' = step.clustered
          /\ IF step.clustered
             THEN embeddedFailures' = step.embeddedFailures /\ out' = step.out
             ELSE UNCHANGED <<embeddedFailures, out>>
          /\ IF step.next = "throw"
             THEN /\ pc' = "idle"
                  /\ calls' = Settle(calls, "resolved", value)
                  /\ result' = Rejected(step.error)
                  /\ passes' = Append(passes, Pass(calls[1].value, today', result'))
             ELSE /\ pc' = "saveClusters"
                  /\ calls' = Append(Settle(calls, "resolved", value),
                                     Call("saveClusters", step.out.clusters))
                  /\ UNCHANGED <<result, passes>>
    /\ UNCHANGED <<config, options, store, enhancedFailures, mock>>

\* saveClusters resolves (in-memory-adapter.ts 57-60); lines 119-122, detect
\* returns the clusters
MockSaveResolves ==
    /\ pc = "saveClusters"
    /\ UNCHANGED outsideMock
    /\ pc' = "idle"
    /\ calls' = Settle(calls, "resolved", <<>>)
    /\ store' = saveClusters(store, out.clusters)
    /\ result' = Returned(out.clusters)
    /\ passes' = Append(passes, Pass(calls[1].value, today, result'))
    /\ UNCHANGED <<config, options, today, enhancedFailures, embeddedFailures,
                   out, called, mock>>

NextMock ==
    \/ MockDetect
    \/ MockFetchResolves
    \/ MockEmbeddingsResolve
    \/ MockSaveResolves

SpecMock == InitMock /\ [][NextMock]_vars

(***************************************************************************)
(* Calls of extractPatterns, each on a failure of its own.                 *)
(***************************************************************************)
\* the detective, its collaborators and clusterFailures take no part
NoDetective ==
    /\ config = DEFAULT_CONFIG
    /\ options = config.clustering
    /\ today = [year |-> 2024, month |-> 1, day |-> 5]
    /\ embeddedFailures = <<>>
    /\ out = NotCalled
    /\ called = FALSE
    /\ pc = "idle"
    /\ enhancedFailures = <<>>
    /\ calls = <<>>
    /\ store = <<>>
    /\ result = NoPass
    /\ mock = <<>>
    /\ passes = <<>>

\* the field errorObject of a failure whose errorMessage is an object
NoErrorMap ==
    [ message |-> None, actual |-> None, expected |-> None, locator |-> None,
      matcher |-> None, timeout |-> None, line |-> None, snippet |-> None ]

\* the failure with the object in place of its errorMessage
WithErrorObject(failure, errorMap) ==
    [x \in (DOMAIN failure \ {"errorMessage"}) \cup {"errorObject"} |->
        IF x = "errorObject" THEN errorMap ELSE failure[x]]

\* the messages of pattern-extraction.test.ts
ExtractMessages ==
    { <<"E", "r", "r", "o", "r">>,
      <<"l", "o", "c", "a", "t", "o", "r", "(", "\"", "n", "e", "w", "B", "u", "t", "t", "o", "n", "\"", ")">>,
      <<"E", "r", "r", "o", "r", ":", " ", "T", "i", "m", "e", "o", "u", "t", " ", "5", "0", "0", "0", "m", "s", " ", "e", "x", "c", "e", "e", "d", "e", "d">>,
      <<"E", "x", "p", "e", "c", "t", "e", "d", ":", " ", "\"", "H", "e", "l", "l", "o", "\"", " ", "b", "u", "t", " ", "r", "e", "c", "e", "i", "v", "e", "d", ":", " ", "\"", "G", "o", "o", "d", "b", "y", "e", "\"">>,
      <<"E", "r", "r", "o", "r", ":", " ", "e", "x", "p", "e", "c", "t", "(", "e", "l", "e", "m", "e", "n", "t", ")", ".", "t", "o", "B", "e", "V", "i", "s", "i", "b", "l", "e", "(", ")", " ", "f", "a", "i", "l", "e", "d">> }

ExtractObjects ==
    { [NoErrorMap EXCEPT !.message = Some(<<"T", "i", "m", "e", "d", " ", "o", "u", "t", " ", "5", "0", "0", "0", "m", "s">>),
                         !.locator = Some(<<"n", "e", "w", "B", "u", "t", "t", "o", "n">>)],
      [NoErrorMap EXCEPT !.message = Some(<<"T", "i", "m", "e", "d", " ", "o", "u", "t", " ", "5", "0", "0", "0", "m", "s">>),
                         !.actual = Some(<<"h", "i", "d", "d", "e", "n">>),
                         !.expected = Some(<<"v", "i", "s", "i", "b", "l", "e">>),
                         !.locator = Some(<<"n", "e", "w", "B", "u", "t", "t", "o", "n">>),
                         !.matcher = Some(<<"t", "o", "H", "a", "v", "e", "T", "e", "x", "t">>),
                         !.line = Some(7),
                         !.snippet = Some(<<<<"a", "w", "a", "i", "t", " ", "e", "x", "p", "e", "c", "t", "(", "b", "u", "t", "t", "o", "n", ")", ".", "t", "o", "B", "e", "V", "i", "s", "i", "b", "l", "e", "(", ")">>>>)],
      [NoErrorMap EXCEPT !.actual = Some(<<"h", "i", "d", "d", "e", "n">>),
                         !.snippet = Some(<<<<">", " ", "7", " ", "|">>,
                                            <<"e", "x", "p", "e", "c", "t", "(", "t", "h", "i", "s", ".", "t", "i", "t", "l", "e", ")", ".", "t", "o", "H", "a", "v", "e", "T", "e", "x", "t", "(", "'", "H", "i", "'", ")", ",", " ", "{", " ", "t", "i", "m", "e", "o", "u", "t", ":", " ", "1", "0", "0", " ", "}">>>>)] }

ExtractStacks ==
    { None, Some(<<"a", "t", " ", "t", "e", "s", "t", ".", "s", "p", "e", "c", ".", "t", "s", ":", "4", "2", ":", "1", "0", "\n", " ", " ", "a", "t", " ", "r", "u", "n", " ", "(", ")">>) }

RunsLink == <<"h", "t", "t", "p", "s", ":", "/", "/", "g", "i", "t", "h", "u", "b", ".", "c", "o", "m", "/", "o", "r", "g", "/", "r", "e", "p", "o", "/", "a", "c", "t", "i", "o", "n", "s", "/", "r", "u", "n", "s", "/", "9", "8", "7", "6", "5", "4", "3", "2", "/", "a", "t", "t", "e", "m", "p", "t", "s", "/", "1">>

ExtractMetadata ==
    { NoMetadata,
      [NoMetadata EXCEPT !.locator = Some(<<"e", "x", "i", "s", "t", "i", "n", "g", "B", "u", "t", "t", "o", "n">>)],
      [NoMetadata EXCEPT !.projectName = Some(<<"M", "y", "P", "r", "o", "j", "e", "c", "t">>),
                         !.suiteName = Some(<<"M", "y", "S", "u", "i", "t", "e">>),
                         !.locator = Some(<<"e", "x", "i", "s", "t", "i", "n", "g", "L", "o", "c", "a", "t", "o", "r">>)],
      [NoMetadata EXCEPT !.timeout = Some(0), !.lineNumber = Some(0)],
      [NoMetadata EXCEPT !.errorSnippet = Some(<<>>), !.matcher = Some(<<>>),
                         !.actualValue = Some(<<>>), !.expectedValue = Some(<<>>)],
      [NoMetadata EXCEPT !.reportLink = Some(RunsLink)],
      [NoMetadata EXCEPT !.reportLink = Some(<<"/", "r", "u", "n", "s", "/", "1", "2", "/", "r", "u", "n", "s", "/", "3", "4">>)],
      [NoMetadata EXCEPT !.reportLink = Some(<<"h", "t", "t", "p", "s", ":", "/", "/", "g", "i", "t", "h", "u", "b", ".", "c", "o", "m", "/", "o", "r", "g", "/", "r", "e", "p", "o", "/", "r", "u", "n", "s", "/">>)],
      [NoMetadata EXCEPT !.reportLink = Some(<<>>)],
      [NoMetadata EXCEPT !.reportLink = Some(RunsLink), !.runId = Some(<<"7", "7">>)],
      [NoMetadata EXCEPT !.reportLink = Some(RunsLink), !.runId = Some(<<>>)],
      [NoMetadata EXCEPT !.runId = Some(<<"7", "7">>)],
      [ errorSnippet |-> Some(<<"a", "w", "a", "i", "t", " ", "p", "a", "g", "e", ".", "c", "l", "i", "c", "k", "(", ")">>), lineNumber |-> Some(10),
        projectName |-> Some(<<"M", "y", "P", "r", "o", "j", "e", "c", "t">>), suiteName |-> Some(<<"M", "y", "S", "u", "i", "t", "e">>),
        locator |-> Some(<<"e", "x", "i", "s", "t", "i", "n", "g", "B", "u", "t", "t", "o", "n">>), matcher |-> Some(<<"t", "o", "B", "e", "H", "i", "d", "d", "e", "n">>),
        timeout |-> Some(250), actualValue |-> Some(<<"a">>),
        expectedValue |-> Some(<<"b">>), runId |-> Some(<<"7", "7">>),
        reportLink |-> Some(RunsLink) ] }

ExtractInputs ==
    { TestFailure(1, message, stack, 0, metadata) :
        message \in ExtractMessages, stack \in ExtractStacks,
        metadata \in ExtractMetadata }
    \cup
    { WithErrorObject(TestFailure(1, <<>>, stack, 0, metadata), errorMap) :
        errorMap \in ExtractObjects, stack \in ExtractStacks,
        metadata \in ExtractMetadata }

NotExtracted == <<>>

InitExtract ==
    /\ NoDetective
    /\ genai = <<>>
    /\ running = <<>>
    /\ argument \in ExtractInputs
    /\ answer = NotExtracted

\* what the object passed to extractPatterns holds when the call ended, by
\* return or by throw: the function assigns to its own variables only, never
\* to a property of failure or of failure.metadata
argumentAfterOverwriting(failure) ==
    IF extractPatternsCall(failure).threw THEN failure
    ELSE extractPatternsCall(failure).value

argumentAfter(failure) == failure

\* extractPatterns(argument)
ExtractCall ==
    /\ answer = NotExtracted
    /\ answer' = <<extractPatternsCall(argument)>>
    /\ argument' = argumentAfter(argument)
    /\ UNCHANGED <<embeddedFailures, options, today, out, called, config, pc,
                   enhancedFailures, calls, store, result, mock, passes, genai, running>>

NextExtract == ExtractCall

SpecExtract == InitExtract /\ [][NextExtract]_vars

(***************************************************************************)
(* Calls of validateFailures, each on an array of its own.                 *)
(***************************************************************************)
MaxRecords == 3     \* records of an array passed to validateFailures

Unanswered == <<>>

\* what a call that is given a complaint (<<>>: none) ends with
Thrown(complaint) == [threw |-> complaint # None, message |-> complaint]

\* a record with the fields of missing emptied and, for a timestamp other
\* than "Date", a value that is no instant in its place
RecordWith(missing, timestamp) ==
    LET full == TestFailure(1, <<"E", "r", "r", "o", "r">>, None, 0, NoMetadata)
        cut  == [x \in DOMAIN full |-> IF x \in missing THEN <<>> ELSE full[x]]
    IN  IF timestamp = "Date" THEN cut ELSE WithoutTimestamp(cut, timestamp)

ValidateRecords ==
    { RecordWith(missing, timestamp) :
        missing \in { {}, {"id"}, {"testTitle"}, {"testFilePath"}, {"errorMessage"},
                      {"id", "errorMessage"} },
        timestamp \in {"Date", "Invalid Date", "string"} }
    \ { RecordWith({"id"}, "string"), RecordWith({"testTitle"}, "string"),
        RecordWith({"testFilePath"}, "string"), RecordWith({"testTitle"}, "Invalid Date"),
        RecordWith({"testFilePath"}, "Invalid Date"), RecordWith({"id", "errorMessage"}, "string") }

ValidateInputs ==
    { NotAnArray }
    \cup { ArrayOf(items) :
             items \in UNION { [1..n -> ValidateRecords] : n \in 0..MaxRecords } }

InitValidate ==
    /\ NoDetective
    /\ genai = <<>>
    /\ running = <<>>
    /\ argument \in ValidateInputs
    /\ answer = Unanswered

\* validateFailures(argument)
ValidateFailuresCall ==
    /\ answer = Unanswered
    /\ answer' = <<Thrown(validateFailures(argument))>>
    /\ argument' = argument
    /\ UNCHANGED <<embeddedFailures, options, today, out, called, config, pc,
                   enhancedFailures, calls, store, result, mock, passes, genai, running>>

NextValidate == ValidateFailuresCall

SpecValidate == InitValidate /\ [][NextValidate]_vars

(***************************************************************************)
(* The construction of a FlakinessDetective and the passes of the          *)
(* detective that was constructed.                                         *)
(***************************************************************************)
\* the config argument of new FlakinessDetective(adapter, provider, config)
ConstructConfigs ==
    { [ epsilon |-> epsilon, minPoints |-> minPoints, minClusterSize |-> minClusterSize,
        distance |-> distance, maxClusters |-> maxClusters, days |-> days ] :
        epsilon \in { None, Some([num |-> 0 - 1, den |-> 10]), Some([num |-> 0, den |-> 1]),
                      Some([num |-> 3, den |-> 2]) },
        minPoints \in { None, Some(0), Some(1) },
        minClusterSize \in { None, Some(0) },
        distance \in { None, Some("manhattan"), Some("euclidean") },
        maxClusters \in { None, Some(0) },
        days \in { None, Some([num |-> 0, den |-> 1]), Some([num |-> 3, den |-> 2]) } }

NoObject == <<>>

InitConstruct ==
    /\ argument \in ConstructConfigs
    /\ answer = Unanswered
    /\ config = NoObject
    /\ options = DEFAULT_CONFIG.clustering
    /\ today \in Dates
    /\ embeddedFailures = <<>>
    /\ out = NotCalled
    /\ called = FALSE
    /\ pc = "new"
    /\ enhancedFailures = <<>>
    /\ calls = <<>>
    /\ store = <<>>
    /\ result = NoPass
    /\ mock = <<>>
    /\ passes = <<>>
    /\ genai = <<>>
    /\ running = <<>>

\* new FlakinessDetective(dataAdapter, embeddingProvider, argument): lines
\* 43-57.  When validateConfig throws there is no object to call detect() on.
Construct ==
    /\ pc = "new"
    /\ answer' = <<Thrown(validateConfig(mergeConfig(argument)))>>
    /\ IF validateConfig(mergeConfig(argument)) = None
       THEN /\ config' = mergeConfig(argument)
            /\ options' = mergeConfig(argument).clustering
            /\ pc' = "idle"
       ELSE /\ pc' = "thrown"
            /\ UNCHANGED <<config, options>>
    /\ UNCHANGED <<argument, today, embeddedFailures, out, called, enhancedFailures,
                   calls, store, result, mock, passes, genai, running>>

NextConstruct ==
    \/ Construct
    \/ Detect
    \/ FetchRejects
    \/ FetchResolves
    \/ EmbeddingsReject
    \/ EmbeddingsResolve
    \/ SaveRejects
    \/ SaveResolves

SpecConstruct == InitConstruct /\ [][NextConstruct]_vars

(***************************************************************************)
(* GoogleGenAIProvider.generateEmbeddings (google-genai-provider.ts): one  *)
(* call, cut at its awaits.  argument is [texts, maxBatchSize]: the texts  *)
(* passed and the maxBatchSize of the config the provider was built with.  *)
(* genai holds the call under way: the batches, the index i of the batch   *)
(* in hand, its requests that have not settled (by place in the batch),    *)
(* the values of those that resolved, the order in which they did, the     *)
(* embeddings gathered, the lines logged, the number of batches begun and  *)
(* the events of the call in the order in which they happened: a request   *)
(* of batch i made, a request of batch i settled, the delay after batch i  *)
(* over, the call returned or thrown.                                      *)
(***************************************************************************)
MaxTexts == 5       \* texts passed to generateEmbeddings
MaxBatch == 3       \* the largest maxBatchSize a config sets

DefaultBatchSize == 5

\* this.maxBatchSize = config.maxBatchSize || 5
maxBatchSizeOf(configured) ==
    IF TruthyNumber(configured) THEN Get(configured) ELSE DefaultBatchSize

\* createBatches: array.slice(i, i + batchSize) for i = 0, batchSize, ...
RECURSIVE createBatchesFrom(_, _, _)
createBatchesFrom(array, batchSize, i) ==
    IF i >= Len(array) THEN <<>>
    ELSE <<SubSeq(array, i + 1, Min(i + batchSize, Len(array)))>>
         \o createBatchesFrom(array, batchSize, i + batchSize)

createBatches(array, batchSize) == createBatchesFrom(array, batchSize, 0)

\* the array of the requests' values by the order in which they resolved
promiseAllByCompletion(values, completion) ==
    [j \in 1..Len(completion) |-> Get(values[completion[j]])]

\* Promise.all of the requests of a batch that all resolved: their values in
\* the order of the batch, whatever the order in which they resolved
promiseAll(values, completion) == [k \in 1..Len(values) |-> Get(values[k])]

TextUniverse ==
    <<<<"t", "e", "x", "t", "1">>, <<"t", "e", "x", "t", "2">>, <<"t", "e", "x", "t", "3">>, <<"t", "e", "x", "t", "4">>, <<"t", "e", "x", "t", "5">>, <<"t", "e", "x", "t", "6">>>>

\* result.embedding.values of the service for a text: a vector of its own
ServiceValues(text) == <<CHOOSE n \in 1..Len(TextUniverse) : TextUniverse[n] = text, 1>>

\* String(error) of the error a request of the service rejects with
ServiceError == <<"E", "r", "r", "o", "r", ":", " ", "q", "u", "o", "t", "a", " ", "e", "x", "c", "e", "e", "d", "e", "d">>

\* embedContent, line 286: the error it throws when the request rejects
embedContentError(cause) == <<"E", "r", "r", "o", "r", ":", " ", "F", "a", "i", "l", "e", "d", " ", "t", "o", " ", "e", "m", "b", "e", "d", " ", "c", "o", "n", "t", "e", "n", "t", ":", " ">> \o cause

\* the message with the number of the batch in it
batchErrorMessageWithNumber(i, error) ==
    <<"F", "a", "i", "l", "e", "d", " ", "t", "o", " ", "g", "e", "n", "e", "r", "a", "t", "e", " ", "e", "m", "b", "e", "d", "d", "i", "n", "g", "s", " ", "f", "o", "r", " ", "b", "a", "t", "c", "h", " ">> \o NumberToString(i + 1)
        \o <<":", " ">> \o error

\* line 259: the message of the error generateEmbeddings throws for batch i
batchErrorMessage(i, error) == <<"F", "a", "i", "l", "e", "d", " ", "t", "o", " ", "g", "e", "n", "e", "r", "a", "t", "e", " ", "e", "m", "b", "e", "d", "d", "i", "n", "g", "s", " ", "f", "o", "r", " ", "b", "a", "t", "c", "h", ":", " ">> \o error

\* line 258: the line logged for batch i
batchErrorLog(i, error) ==
    <<"E", "r", "r", "o", "r", " ", "e", "m", "b", "e", "d", "d", "i", "n", "g", " ", "b", "a", "t", "c", "h", " ">> \o NumberToString(i + 1) \o <<":", " ">> \o error

Resolves(value) == [threw |-> FALSE, message |-> None, value |-> value]
Rejects(message) == [threw |-> TRUE, message |-> Some(message), value |-> <<>>]

IdleProvider ==
    [ pc |-> "idle", batches |-> <<>>, i |-> 0, pending |-> {}, values |-> <<>>,
      completion |-> <<>>, embeddings |-> <<>>, log |-> <<>>, started |-> 0,
      events |-> <<>> ]

Event(kind, i) == [kind |-> kind, batch |-> i]

\* line 254: a delay follows batch i
delayFollowsEveryBatch(i, batches) == TRUE

delayFollows(i, batches) == i < Len(batches) - 1

\* lines 245-249: the requests of batch i are made
startBatch(g, i) ==
    [g EXCEPT !.pc = "batch", !.i = i,
              !.pending = 1..Len(g.batches[i + 1]),
              !.values = [k \in 1..Len(g.batches[i + 1]) |-> None],
              !.completion = <<>>,
              !.started = @ + 1,
              !.events = @ \o [k \in 1..Len(g.batches[i + 1]) |-> Event("request", i)]]

GenerateInputs ==
    { [texts |-> texts, maxBatchSize |-> size] :
        texts \in { SubSeq(TextUniverse, 1, n) : n \in 0..MaxTexts }
                  \cup { Reverse(SubSeq(TextUniverse, 1, n)) : n \in 2..MaxTexts },
        size \in { None } \cup { Some(b) : b \in 0..MaxBatch } }

InitGenerate ==
    /\ NoDetective
    /\ argument \in GenerateInputs
    /\ answer = Unanswered
    /\ genai = IdleProvider
    /\ running = <<>>

Elsewhere ==
    <<embeddedFailures, options, today, out, called, config, pc,
      enhancedFailures, calls, store, result, mock, passes, running>>

\* generateEmbeddings(texts) is called: line 233, await this.initializeClient()
GenerateEmbeddings ==
    /\ genai.pc = "idle"
    /\ answer = Unanswered
    /\ genai' = [genai EXCEPT !.pc = "initializeClient"]
    /\ UNCHANGED <<argument, answer, Elsewhere>>

\* initializeClient throws (lines 222-225): so does generateEmbeddings
ClientFails ==
    /\ genai.pc = "initializeClient"
    /\ LET error == <<"E", "r", "r", "o", "r", ":", " ", "F", "a", "i", "l", "e", "d", " ", "t", "o", " ", "i", "n", "i", "t", "i", "a", "l", "i", "z", "e", " ", "G", "o", "o", "g", "l", "e", " ", "G", "e", "n", "A", "I", " ", "c", "l", "i", "e", "n", "t", ":", " ", "E", "r", "r", "o", "r", ":", " ", "i", "m", "p", "o", "r", "t", " ", "f", "a", "i", "l", "e", "d">>
       IN  /\ genai' = [genai EXCEPT !.pc = "done",
                           !.log = Append(@, <<"E", "r", "r", "o", "r", " ", "i", "n", "i", "t", "i", "a", "l", "i", "z", "i", "n", "g", " ", "G", "o", "o", "g", "l", "e", " ", "G", "e", "n", "A", "I", " ", "c", "l", "i", "e", "n", "t", ":", " ", "E", "r", "r", "o", "r", ":", " ", "i", "m", "p", "o", "r", "t", " ", "f", "a", "i", "l", "e", "d">>)]
           /\ answer' = <<Rejects(error)>>
    /\ UNCHANGED <<argument, Elsewhere>>

\* initializeClient returns: lines 235-249, up to the requests of batch 0
ClientReady ==
    /\ genai.pc = "initializeClient"
    /\ IF Len(argument.texts) = 0
       THEN /\ genai' = [genai EXCEPT !.pc = "done"]
            /\ answer' = <<Resolves(<<>>)>>
       ELSE /\ genai' =
                 startBatch(
                    [genai EXCEPT
                       !.log = Append(@, <<"G", "e", "n", "e", "r", "a", "t", "i", "n", "g", " ", "e", "m", "b", "e", "d", "d", "i", "n", "g", "s", " ", "f", "o", "r", " ">>
                                            \o NumberToString(Len(argument.texts))
                                            \o <<" ", "t", "e", "x", "t", "s">>),
                       !.batches = createBatches(argument.texts,
                                                 maxBatchSizeOf(argument.maxBatchSize))],
                    0)
            /\ UNCHANGED answer
    /\ UNCHANGED <<argument, Elsewhere>>

\* a request of the batch in hand resolves (line 283).  With the last of
\* them Promise.all resolves: lines 251-256, and line 263 after the last batch
RequestResolves ==
    /\ genai.pc = "batch"
    /\ \E k \in genai.pending :
         LET batch == genai.batches[genai.i + 1]
             one   == [genai EXCEPT !.pending = @ \ {k},
                                    !.values[k] = Some(ServiceValues(batch[k])),
                                    !.completion = Append(@, k),
                                    !.events = Append(@, Event("settled", genai.i))]
             all   == [one EXCEPT !.embeddings = @ \o promiseAll(one.values, one.completion)]
         IN  IF one.pending # {}
             THEN genai' = one /\ UNCHANGED answer
             ELSE IF delayFollows(genai.i, genai.batches)
             THEN genai' = [all EXCEPT !.pc = "delay"] /\ UNCHANGED answer
             ELSE IF genai.i + 1 < Len(genai.batches)
             THEN genai' = startBatch(all, genai.i + 1) /\ UNCHANGED answer
             ELSE /\ genai' = [all EXCEPT !.pc = "done",
                                          !.events = Append(@, Event("return", genai.i))]
                  /\ answer' = <<Resolves(all.embeddings)>>
    /\ UNCHANGED <<argument, Elsewhere>>

\* a request of the batch in hand rejects: embedContent throws (lines
\* 284-287), Promise.all rejects with it and generateEmbeddings throws
\* (lines 257-260).  The other requests of the batch stay under way.
RequestRejects ==
    /\ genai.pc = "batch"
    /\ \E k \in genai.pending :
         LET error == embedContentError(ServiceError)
         IN  /\ genai' = [genai EXCEPT
                            !.pc = "done",
                            !.pending = @ \ {k},
                            !.events = @ \o <<Event("settled", genai.i),
                                              Event("throw", genai.i)>>,
                            !.log = @ \o <<<<"E", "r", "r", "o", "r", " ", "e", "m", "b", "e", "d", "d", "i", "n", "g", " ", "c", "o", "n", "t", "e", "n", "t", ":", " ">> \o ServiceError,
                                           batchErrorLog(genai.i, error)>>]
             /\ answer' = <<Rejects(batchErrorMessage(genai.i, error))>>
    /\ UNCHANGED <<argument, Elsewhere>>

\* a request of a batch that failed settles after generateEmbeddings threw
LateSettles ==
    /\ genai.pc = "done"
    /\ \E k \in genai.pending, outcome \in {"resolved", "rejected"} :
         genai' = [genai EXCEPT
                     !.pending = @ \ {k},
                     !.events = Append(@, Event("settled", genai.i)),
                     !.log = IF outcome = "resolved" THEN @
                             ELSE Append(@, <<"E", "r", "r", "o", "r", " ", "e", "m", "b", "e", "d", "d", "i", "n", "g", " ", "c", "o", "n", "t", "e", "n", "t", ":", " ">> \o ServiceError)]
    /\ UNCHANGED <<argument, answer, Elsewhere>>

\* the delay after batch i is over (line 255): the loop goes on with i + 1,
\* to the next batch if there is one (line 244) and to line 263 if not
DelayElapses ==
    /\ genai.pc = "delay"
    /\ LET waited == [genai EXCEPT !.events = Append(@, Event("wait", genai.i))]
       IN  IF genai.i + 1 < Len(genai.batches)
           THEN genai' = startBatch(waited, genai.i + 1) /\ UNCHANGED answer
           ELSE /\ genai' = [waited EXCEPT !.pc = "done",
                                           !.events = Append(@, Event("return", genai.i))]
                /\ answer' = <<Resolves(waited.embeddings)>>
    /\ UNCHANGED <<argument, Elsewhere>>

NextGenerate ==
    \/ GenerateEmbeddings
    \/ ClientFails
    \/ ClientReady
    \/ RequestResolves
    \/ RequestRejects
    \/ LateSettles
    \/ DelayElapses

SpecGenerate == InitGenerate /\ [][NextGenerate]_vars

(***************************************************************************)
(* Calls of createRichEmbeddingContext, each on a failure of its own: the  *)
(* fields of its metadata that the function reads are, each, undefined,    *)
(* set to a value that is falsy ('' or 0) or set to one that is not.       *)
(***************************************************************************)
\* the values of a string field and of a number field
ContextStrings(word) == { None, Some(<<>>), Some(word) }
ContextNumbers(n) == { None, Some(0), Some(n) }

ContextMetadata ==
    { [ NoMetadata EXCEPT !.projectName = project, !.suiteName = suite,
                          !.lineNumber = line, !.locator = locator,
                          !.matcher = matcher, !.actualValue = actual,
                          !.expectedValue = expected, !.timeout = timeout,
                          !.errorSnippet = snippet ] :
        project \in ContextStrings(<<"E", "2", "E">>), suite \in ContextStrings(<<"A", "u", "t", "h">>),
        line \in ContextNumbers(42), locator \in ContextStrings(<<"b", "u", "t", "t", "o", "n", ".", "s", "u", "b", "m", "i", "t">>),
        matcher \in ContextStrings(<<"t", "o", "B", "e", "V", "i", "s", "i", "b", "l", "e">>),
        actual \in ContextStrings(<<"h", "i", "d", "d", "e", "n">>),
        expected \in ContextStrings(<<"v", "i", "s", "i", "b", "l", "e">>),
        timeout \in ContextNumbers(5000), snippet \in ContextStrings(<<"c", "o", "d", "e">>) }

ContextInputs ==
    { TestFailure(1, <<"E", "r", "r", "o", "r", " ", "m", "e", "s", "s", "a", "g", "e">>, None, 0, metadata) :
        metadata \in ContextMetadata }

InitContext ==
    /\ NoDetective
    /\ genai = <<>>
    /\ running = <<>>
    /\ argument \in ContextInputs
    /\ answer = Unanswered

\* createRichEmbeddingContext(failure) is called and returns
ContextCall ==
    /\ answer = Unanswered
    /\ answer' = <<createRichEmbeddingContext(argument)>>
    /\ UNCHANGED <<argument, genai, Elsewhere>>

NextContext == ContextCall

SpecContext == InitContext /\ [][NextContext]_vars

(***************************************************************************)
(* Passes of one FlakinessDetective that run at once and interleave at     *)
(* their awaits.  running.passes holds, for each call of detect(), the     *)
(* call it awaits, what its collaborators resolved with, the clusters it   *)
(* passed to saveClusters and the way it settled; running.locals holds the *)
(* working set of each call: the locals enhancedFailures and clusters,     *)
(* which live through an await.  The data adapter and the embedding        *)
(* provider are shared and do not reject here.                             *)
(***************************************************************************)
MaxConcurrent == 2  \* calls of detect() under way at once

\* where call i keeps its working set: in locals of its own
workingSetOfTheInstance(i) == 1

workingSetOf(i) == i

NoLocals == [enhancedFailures |-> <<>>, clusters |-> <<>>]

IdlePass ==
    [ pc |-> "idle", fetched |-> <<>>, provided |-> <<>>, saving |-> <<>>,
      result |-> NoPass ]

\* what fetchFailures resolves with for a call: valid records
ConcurrentFetchValues ==
    { ArrayOf(SampleFailures(n)) : n \in {0, 2, MaxFailures} }
    \cup { ArrayOf(Reverse(SampleFailures(MaxFailures))) }

\* what generateEmbeddings resolves with for n contexts: a vector for each
ConcurrentEmbeddingValues(n) ==
    { ArrayOf(e) : e \in [1..n -> {Entry(v) : v \in EmbeddingVectors}] }

InitConcurrent ==
    /\ \E partial \in PartialConfigs :
          /\ validateConfig(mergeConfig(partial)) = None
          /\ config = mergeConfig(partial)
    /\ options = config.clustering
    /\ today = [year |-> 2024, month |-> 1, day |-> 5]
    /\ embeddedFailures = <<>>
    /\ out = NotCalled
    /\ called = FALSE
    /\ pc = "idle"
    /\ enhancedFailures = <<>>
    /\ calls = <<>>
    /\ store = <<>>
    /\ result = NoPass
    /\ mock = <<>>
    /\ passes = <<>>
    /\ argument = <<>>
    /\ answer = <<>>
    /\ genai = <<>>
    /\ running = [ passes |-> [i \in 1..MaxConcurrent |-> IdlePass],
                   locals |-> [i \in 1..MaxConcurrent |-> NoLocals] ]

\* what a step of a pass leaves alone
outsideConcurrent ==
    <<embeddedFailures, options, today, out, called, config, pc,
      enhancedFailures, calls, result, mock, passes, argument, answer, genai>>

\* a call of detect(): line 71, the call of fetchFailures
ConcurrentDetect ==
    /\ \E i \in 1..MaxConcurrent :
          /\ running.passes[i].pc = "idle"
          /\ running' = [running EXCEPT !.passes[i].pc = "fetchFailures"]
    /\ UNCHANGED <<store, outsideConcurrent>>

\* the fetchFailures of a call resolves: lines 72-94 and 136-145
ConcurrentFetchResolves ==
    /\ \E i \in 1..MaxConcurrent :
          /\ running.passes[i].pc = "fetchFailures"
          /\ \E value \in ConcurrentFetchValues :
             \E step \in {detectAfterFetch(value)} :
                IF step.next = "generateEmbeddings"
                THEN running' =
                        [running EXCEPT
                           !.passes[i].pc = "generateEmbeddings",
                           !.passes[i].fetched = value,
                           !.locals[workingSetOf(i)].enhancedFailures =
                               step.enhancedFailures]
                ELSE running' =
                        [running EXCEPT
                           !.passes[i].pc = "done",
                           !.passes[i].fetched = value,
                           !.passes[i].result =
                               IF step.next = "return" THEN Returned(<<>>)
                               ELSE Rejected(step.error)]
    /\ UNCHANGED <<store, outsideConcurrent>>

\* the generateEmbeddings of a call resolves: lines 146-157 and 94-118
ConcurrentEmbeddingsResolve ==
    /\ \E i \in 1..MaxConcurrent :
          /\ running.passes[i].pc = "generateEmbeddings"
          /\ \E value \in ConcurrentEmbeddingValues(Len(running.passes[i].fetched.items)) :
             \E step \in {detectAfterEmbeddings(
                             running.locals[workingSetOf(i)].enhancedFailures,
                             value, config.clustering, today)} :
                IF step.next = "throw"
                THEN running' =
                        [running EXCEPT
                           !.passes[i].pc = "done",
                           !.passes[i].provided = value,
                           !.passes[i].result = Rejected(step.error)]
                ELSE running' =
                        [running EXCEPT
                           !.passes[i].pc = "saveClusters",
                           !.passes[i].provided = value,
                           !.passes[i].saving = step.out.clusters,
                           !.locals[workingSetOf(i)].clusters = step.out.clusters]
    /\ UNCHANGED <<store, outsideConcurrent>>

\* the saveClusters of a call resolves (in-memory-adapter.ts 57-60); lines
\* 119-122, the call returns its local clusters
ConcurrentSaveResolves ==
    /\ \E i \in 1..MaxConcurrent :
          /\ running.passes[i].pc = "saveClusters"
          /\ store' = saveClusters(store, running.passes[i].saving)
          /\ running' =
                [running EXCEPT
                   !.passes[i].pc = "done",
                   !.passes[i].result =
                       Returned(running.locals[workingSetOf(i)].clusters)]
    /\ UNCHANGED outsideConcurrent

NextConcurrent ==
    \/ ConcurrentDetect
    \/ ConcurrentFetchResolves
    \/ ConcurrentEmbeddingsResolve
    \/ ConcurrentSaveResolves

SpecConcurrent == InitConcurrent /\ [][NextConcurrent]_vars

(***************************************************************************)
(* GoogleGenAIProvider.initializeClient under calls of generateEmbeddings  *)
(* and embedContent that are under way at once on one instance.  genai     *)
(* holds the fields genAIClient and embeddingModel (the number of the      *)
(* object each holds, <<>> for null), the number of clients and models     *)
(* created so far, and for each caller the method it called, whether it is *)
(* inside embedContent and where it stands.                                *)
(***************************************************************************)
MaxCallers == 3     \* calls under way at once on one provider

IdleCaller == [method |-> "", inEmbedContent |-> FALSE, pc |-> "idle"]

NewProvider ==
    [ genAIClient |-> None, embeddingModel |-> None, created |-> 0, models |-> 0,
      callers |-> [c \in 1..MaxCallers |-> IdleCaller] ]

\* initializeClient up to its await, lines 203-209: it returns when
\* this.genAIClient is set and imports the library when it is not
initializeClient(provider) ==
    IF provider.genAIClient # None THEN "initialized" ELSE "import"

InitClient ==
    /\ NoDetective
    /\ argument = <<>>
    /\ answer = <<>>
    /\ running = <<>>
    /\ genai = NewProvider

outsideClient == <<argument, answer, Elsewhere>>

\* generateEmbeddings(texts) or embedContent(text) is called: lines 233 and
\* 271, await this.initializeClient()
ClientCalled ==
    /\ \E c \in 1..MaxCallers, method \in {"generateEmbeddings", "embedContent"} :
          /\ genai.callers[c].pc = "idle"
          /\ genai' = [genai EXCEPT
                         !.callers[c] = [ method |-> method,
                                          inEmbedContent |-> method = "embedContent",
                                          pc |-> initializeClient(genai) ]]
    /\ UNCHANGED outsideClient

\* the import of a caller resolves: lines 211-221, the client and the model
\* are created and stored
ImportResolves ==
    /\ \E c \in 1..MaxCallers :
          /\ genai.callers[c].pc = "import"
          /\ genai' = [genai EXCEPT
                         !.created = @ + 1,
                         !.models = @ + 1,
                         !.genAIClient = Some(genai.created + 1),
                         !.embeddingModel = Some(genai.models + 1),
                         !.callers[c].pc = "initialized"]
    /\ UNCHANGED outsideClient

\* the import of a caller rejects: lines 222-225, initializeClient throws
\* and so does the method that called it
ImportRejects ==
    /\ \E c \in 1..MaxCallers :
          /\ genai.callers[c].pc = "import"
          /\ genai' = [genai EXCEPT !.callers[c].pc = "thrown"]
    /\ UNCHANGED outsideClient

\* await this.initializeClient() is over.  generateEmbeddings calls
\* embedContent for a text (line 249), which calls initializeClient in its
\* turn (line 271); embedContent makes its request to this.embeddingModel
\* (lines 273-281)
ClientInitialized ==
    /\ \E c \in 1..MaxCallers :
          /\ genai.callers[c].pc = "initialized"
          /\ IF genai.callers[c].inEmbedContent
             THEN genai' = [genai EXCEPT
                              !.callers[c].pc =
                                  IF genai.embeddingModel = None THEN "thrown"
                                  ELSE "request"]
             ELSE genai' = [genai EXCEPT
                              !.callers[c].inEmbedContent = TRUE,
                              !.callers[c].pc = initializeClient(genai)]
    /\ UNCHANGED outsideClient

NextClient ==
    \/ ClientCalled
    \/ ImportResolves
    \/ ImportRejects
    \/ ClientInitialized

SpecClient == InitClient /\ [][NextClient]_vars

(***************************************************************************)
(* FilesystemAdapter.saveClusters and fetchClusters on one clusters file   *)
(* (filesystem-adapter.ts).  A value that is a Date or a string in the     *)
(* program is written here as a record that says which it is: a Date with  *)
(* its getTime(), a string with its characters.  argument is the list of   *)
(* clusters passed to saveClusters, store the parsed content of the file   *)
(* (<<>> while there is no file) and answer what fetchClusters returned.   *)
(* JSON.stringify followed by JSON.parse is taken by what it does to the   *)
(* values of a cluster: a Date comes back as the string of its toJSON,     *)
(* strings, finite numbers and arrays of them come back as they were.      *)
(***************************************************************************)
DateValue(t) == [kind |-> "date", time |-> t, text |-> <<>>]
StringValue(s) == [kind |-> "string", time |-> 0, text |-> s]

MillisecondsPerDay == 86400000

\* the days of the months of 2024, the year of the model's instants
MonthLengths == <<31, 29, 31, 30, 31, 30, 31, 31, 30, 31, 30, 31>>

\* the month (1..12) of the day numbered from 0 within the year, and the
\* days of the year before that month
RECURSIVE MonthOfDay(_, _)
MonthOfDay(day, month) ==
    IF day < MonthLengths[month] THEN [month |-> month, day |-> day + 1]
    ELSE MonthOfDay(day - MonthLengths[month], month + 1)

RECURSIVE DaysBefore(_)
DaysBefore(month) ==
    IF month = 1 THEN 0 ELSE MonthLengths[month - 1] + DaysBefore(month - 1)

\* Date.prototype.toISOString, YYYY-MM-DDTHH:mm:ss.sssZ, of an instant of
\* 2024 given in milliseconds since the beginning of that year
toISOString(t) ==
    LET date == MonthOfDay(t \div MillisecondsPerDay, 1)
        rest == t % MillisecondsPerDay
    IN  ISODate([year |-> 2024, month |-> date.month, day |-> date.day])
        \o <<"T">> \o PadStart(NumberToString(rest \div 3600000), 2)
        \o <<":">> \o PadStart(NumberToString((rest \div 60000) % 60), 2)
        \o <<":">> \o PadStart(NumberToString((rest \div 1000) % 60), 2)
        \o <<".">> \o PadStart(NumberToString(rest % 1000), 3) \o <<"Z">>

\* the number a run of decimal digits writes
RECURSIVE DigitsValue(_)
DigitsValue(s) ==
    IF s = <<>> THEN 0
    ELSE 10 * DigitsValue(SubSeq(s, 1, Len(s) - 1))
         + (CHOOSE d \in 0..9 : DigitChar(d) = s[Len(s)])

\* new Date(text).getTime() for a text of the form toISOString writes
parseISOString(s) ==
    (DaysBefore(DigitsValue(SubSeq(s, 6, 7))) + DigitsValue(SubSeq(s, 9, 10)) - 1)
        * MillisecondsPerDay
    + DigitsValue(SubSeq(s, 12, 13)) * 3600000
    + DigitsValue(SubSeq(s, 15, 16)) * 60000
    + DigitsValue(SubSeq(s, 18, 19)) * 1000
    + DigitsValue(SubSeq(s, 21, 23))

\* Date.prototype.toJSON, which JSON.stringify calls on a Date
toJSON(value) ==
    IF value.kind = "date" THEN StringValue(toISOString(value.time)) ELSE value

\* new Date(value) of a string
newDate(value) == DateValue(parseISOString(value.text))

\* lines 203-208
serializeFailures(failures) ==
    [j \in 1..Len(failures) |->
        [failures[j] EXCEPT !.timestamp = StringValue(toISOString(@.time))]]

\* lines 214-219
deserializeFailures(data) ==
    [j \in 1..Len(data) |-> [data[j] EXCEPT !.timestamp = newDate(@)]]

\* lines 225-235
serializeClusters(clusters) ==
    [k \in 1..Len(clusters) |->
        [clusters[k] EXCEPT
            !.failures = serializeFailures(@),
            !.metadata.firstSeen = StringValue(toISOString(@.time)),
            !.metadata.lastSeen = StringValue(toISOString(@.time))]]

\* lines 241-251
deserializeClusters(data) ==
    [k \in 1..Len(data) |->
        [data[k] EXCEPT
            !.failures = deserializeFailures(@),
            !.metadata.firstSeen = newDate(@),
            !.metadata.lastSeen = newDate(@)]]

\* JSON.parse(JSON.stringify(serialized)): what the file read back holds
throughJSON(serialized) ==
    [k \in 1..Len(serialized) |->
        [serialized[k] EXCEPT
            !.failures = [j \in 1..Len(@) |-> [@[j] EXCEPT !.timestamp = toJSON(@)]],
            !.metadata.firstSeen = toJSON(@),
            !.metadata.lastSeen = toJSON(@),
            !.metadata.failureTimestamps = [j \in 1..Len(@) |-> toJSON(@[j])]]]

\* a cluster of clusterFailures as the program holds it: its instants Dates
withDates(cluster) ==
    [cluster EXCEPT
        !.failures = [j \in 1..Len(@) |-> [@[j] EXCEPT !.timestamp = DateValue(@)]],
        !.metadata.firstSeen = DateValue(@),
        !.metadata.lastSeen = DateValue(@),
        !.metadata.failureTimestamps = [j \in 1..Len(@) |-> DateValue(@[j])]]

\* the instants of the members: the beginning of the year, a second and an
\* hour later, and a moment of the 25th of January
RoundTripTimes == { 0, 1000, 3600000, 2073723004 }

\* the lists passed to saveClusters: the empty list, or the list
\* clusterFailures returns for failures that lie together
RoundTripInputs ==
    { <<>> }
    \cup UNION { { LET clusters ==
                         clusterFailures(
                            [i \in 1..n |-> EmbeddedFailure(i, <<1, 0>>, t[i],
                                               MessageOfLength(5), TestMetadata)],
                            [ epsilon |-> [num |-> 3, den |-> 10], minPoints |-> 1,
                              minClusterSize |-> 1, distance |-> "cosine",
                              maxClusters |-> None ],
                            [year |-> 2024, month |-> 1, day |-> 5]).clusters
                   IN  [k \in 1..Len(clusters) |-> withDates(clusters[k])]
                   : t \in [1..n -> RoundTripTimes] } : n \in 1..(MaxMembers - 1) }

InitRoundTrip ==
    /\ NoDetective
    /\ genai = <<>>
    /\ running = <<>>
    /\ argument \in RoundTripInputs
    /\ answer = Unanswered

outsideRoundTrip ==
    <<embeddedFailures, options, today, out, called, config, pc,
      enhancedFailures, calls, result, mock, passes, genai, running>>

\* saveClusters(clusters), lines 117-130: the file is written
SaveClustersCall ==
    /\ store = <<>>
    /\ store' = <<throughJSON(serializeClusters(argument))>>
    /\ UNCHANGED <<argument, answer, outsideRoundTrip>>

\* fetchClusters(), lines 136-157, with no limit: the file is read, or []
\* returned when there is none
FetchClustersCall ==
    /\ answer = Unanswered
    /\ answer' = IF store = <<>> THEN <<[fromFile |-> FALSE, clusters |-> <<>>]>>
                 ELSE <<[fromFile |-> TRUE, clusters |-> deserializeClusters(store[1])]>>
    /\ UNCHANGED <<argument, store, outsideRoundTrip>>

NextRoundTrip ==
    \/ SaveClustersCall
    \/ FetchClustersCall

SpecRoundTrip == InitRoundTrip /\ [][NextRoundTrip]_vars

---------------------------------------------------------------------------
(* Vocabulary of the properties                                            *)

Emitted == out.clusters

\* the index sets dbscan.run yields for the call's input
RawOfCall == rawClusters(embeddedFailures, options)

\* those among the index sets raw that have at least minClusterSize points
LargeEnough(raw) == {i \in 1..Len(raw) : Len(raw[i]) >= options.minClusterSize}

MemberIds(indices) == [j \in 1..Len(indices) |-> embeddedFailures[indices[j]].id]
IsEmitted(indices) == \E k \in 1..Len(Emitted) : Emitted[k].metadata.failureIds = MemberIds(indices)

\* no index set of raw that is large enough and left out of the result is
\* larger than a cluster of the result
LeftOutNotLarger(raw) ==
    \A i \in LargeEnough(raw) :
        ~IsEmitted(raw[i]) =>
            \A k \in 1..Len(Emitted) : Len(raw[i]) <= Len(Emitted[k].failures)

\* UTF-16 code units of the characters of a cluster id
CharCode(c) == IF c = "-" THEN 45
               ELSE 48 + (CHOOSE d \in 0..9 : DigitChar(d) = c)

\* s < t as JavaScript compares strings: by the first differing code unit,
\* a proper prefix being smaller
StringLess(s, t) ==
    \/ /\ Len(s) < Len(t)
       /\ \A k \in 1..Len(s) : s[k] = t[k]
    \/ \E k \in 1..Min(Len(s), Len(t)) :
          /\ \A j \in 1..(k - 1) : s[j] = t[j]
          /\ CharCode(s[k]) < CharCode(t[k])

RECURSIVE ParseDecimal(_)
ParseDecimal(s) ==
    IF s = <<>> THEN 0
    ELSE 10 * ParseDecimal(SubSeq(s, 1, Len(s) - 1)) + (CharCode(s[Len(s)]) - 48)

\* the N of an id YYYY-MM-DD-N
IdSuffixChars(id) == SubSeq(id, 12, Len(id))
IdSuffix(id) == ParseDecimal(IdSuffixChars(id))

TimesOf(c) == {c.failures[i].timestamp : i \in 1..Len(c.failures)}
MinOf(S) == CHOOSE t \in S : \A u \in S : t <= u
MaxOf(S) == CHOOSE t \in S : \A u \in S : t >= u

---------------------------------------------------------------------------
(* The stages of the pass that is under way or was the last to end, read   *)
(* from the log of its calls.                                              *)

Settled(op, outcome) ==
    {k \in 1..Len(calls) : calls[k].op = op /\ calls[k].outcome = outcome}

FetchFailed == Settled("fetchFailures", "rejected") # {}

\* validateFailures threw on what fetchFailures resolved with (an empty
\* array makes the pass return before it is validated)
FailureValidationFailed ==
    \E k \in Settled("fetchFailures", "resolved") :
        /\ ~(calls[k].value.isArray /\ Len(calls[k].value.items) = 0)
        /\ validateFailures(calls[k].value) # None

EmbeddingRequestFailed == Settled("generateEmbeddings", "rejected") # {}

\* validateEmbeddings threw on what generateEmbeddings resolved with
EmbeddingValidationFailed ==
    \E k \in Settled("generateEmbeddings", "resolved") :
        validateEmbeddings(calls[k].value) # None

ClusteringFailed == called /\ out.threw

SaveFailed == Settled("saveClusters", "rejected") # {}

EarlierStageFailed ==
    \/ FetchFailed
    \/ FailureValidationFailed
    \/ EmbeddingRequestFailed
    \/ EmbeddingValidationFailed
    \/ ClusteringFailed

SaveClustersCalled == \E k \in 1..Len(calls) : calls[k].op = "saveClusters"

(* C1: if a stage of detect() fails (fetch, failure validation, embedding  *)
(* request, embedding validation, clustering or save), detect() rejects    *)
(* and hands no clusters to its caller; and in a pass in which a stage     *)
(* before the save failed saveClusters is not called, and the step in      *)
(* which that stage fails leaves the store as it was.                      *)
C1_NoPartialOutput ==
    /\ [](EarlierStageFailed \/ SaveFailed
            => result.status = "rejected" /\ result.clusters = <<>>)
    /\ [](EarlierStageFailed => ~SaveClustersCalled)
    /\ [][EarlierStageFailed' => store' = store]_vars

\* a pass in which clusterFailures threw (the provider resolved with valid
\* vectors, fewer than the failures), after a pass that had saved clusters
C1_Witness ==
    /\ ClusteringFailed
    /\ ~EmbeddingValidationFailed
    /\ result.status = "rejected"
    /\ ~SaveClustersCalled
    /\ store # <<>>

---------------------------------------------------------------------------
(* C2: every cluster clusterFailures returns has at least minClusterSize   *)
(* member failures.                                                        *)
C2_MinClusterSize ==
    called => \A k \in 1..Len(Emitted) :
                 Len(Emitted[k].failures) >= options.minClusterSize

\* a call that returned a cluster and dropped a smaller one
C2_Witness ==
    /\ called
    /\ Len(Emitted) >= 1
    /\ LET raw == RawOfCall
       IN  \E i \in 1..Len(raw) : Len(raw[i]) < options.minClusterSize

(* C3 as stated: the returned list is ordered by failureCount descending,  *)
(* and clusters with equal failureCount appear in ascending order of their *)
(* id (ids compared as the strings they are).                              *)
C3_TiesByIdString ==
    called => \A i, j \in 1..Len(Emitted) :
        i < j => \/ Emitted[i].metadata.failureCount > Emitted[j].metadata.failureCount
                 \/ /\ Emitted[i].metadata.failureCount = Emitted[j].metadata.failureCount
                    /\ StringLess(Emitted[i].id, Emitted[j].id)

(* C3 amended: the returned list is ordered by failureCount descending, and *)
(* clusters with equal failureCount appear in ascending order of the       *)
(* numeric suffix N of their id.                                           *)
C3_TiesByIdSuffix ==
    called => \A i, j \in 1..Len(Emitted) :
        i < j => \/ Emitted[i].metadata.failureCount > Emitted[j].metadata.failureCount
                 \/ /\ Emitted[i].metadata.failureCount = Emitted[j].metadata.failureCount
                    /\ IdSuffix(Emitted[i].id) < IdSuffix(Emitted[j].id)

\* a call whose result holds two tied clusters and a larger cluster that was
\* discovered after a smaller one
C3_Witness ==
    /\ called
    /\ \E i, j \in 1..Len(Emitted) :
          /\ i < j
          /\ Emitted[i].metadata.failureCount = Emitted[j].metadata.failureCount
    /\ \E i, j \in 1..Len(Emitted) :
          /\ i < j
          /\ Emitted[i].metadata.failureCount > Emitted[j].metadata.failureCount
          /\ IdSuffix(Emitted[i].id) > IdSuffix(Emitted[j].id)

(* C4: when maxClusters is specified, at most maxClusters clusters are     *)
(* returned, and no cluster that is left out is larger than one that is    *)
(* kept.                                                                   *)
C4_MaxClusters ==
    (called /\ ~out.threw /\ IsSome(options.maxClusters)) =>
        LET raw == RawOfCall
        IN  /\ Len(Emitted) <= Get(options.maxClusters)
            /\ Len(Emitted) = Min(Get(options.maxClusters), Cardinality(LargeEnough(raw)))
            /\ LeftOutNotLarger(raw)

\* a call with a cap that cut a smaller cluster discovered before a kept one
C4_Witness ==
    /\ called
    /\ IsSome(options.maxClusters)
    /\ Len(Emitted) = Get(options.maxClusters)
    /\ LET raw == RawOfCall
       IN  \E i, j \in LargeEnough(raw) :
              /\ i < j
              /\ ~IsEmitted(raw[i])
              /\ IsEmitted(raw[j])
              /\ Len(raw[i]) < Len(raw[j])

(* C5 as stated: when maxClusters is unset or zero no cap is applied:      *)
(* every cluster that survives the minClusterSize filter is returned.      *)
C5_UnsetOrZeroReturnsAll ==
    (called /\ ~out.threw /\ options.maxClusters \in {None, Some(0)}) =>
        LET raw == RawOfCall
        IN  /\ Len(Emitted) = Cardinality(LargeEnough(raw))
            /\ \A i \in LargeEnough(raw) : IsEmitted(raw[i])

(* C5 amended: when maxClusters is unset the cap is 5 (the first 5 of the  *)
(* ranked clusters are returned, all of them when there are at most 5);    *)
(* when maxClusters is zero no cluster is returned.                        *)
C5_UnsetCapsAtFive ==
    /\ (called /\ ~out.threw /\ options.maxClusters = None) =>
          LET raw == RawOfCall
          IN  /\ Len(Emitted) = Min(5, Cardinality(LargeEnough(raw)))
              /\ LeftOutNotLarger(raw)
    /\ (called /\ options.maxClusters = Some(0)) => Emitted = <<>>

\* a call without maxClusters for which more than 5 clusters survive
C5_Witness ==
    /\ called
    /\ options.maxClusters = None
    /\ Cardinality(LargeEnough(RawOfCall)) > 5
    /\ Len(Emitted) = 5

(* C6 as stated: for every emitted cluster with n members, each of the six *)
(* commonPatterns lists holds exactly the values of its field carried by   *)
(* at least ceil(0.5 * n) members: every listed value meets the threshold  *)
(* and every value meeting it is listed.  (A field is carried when it is   *)
(* set; an empty string counts as not set.)                                *)
PatternFields == {"filePath", "lineNumber", "codeSnippet", "locator", "matcher", "timeout"}

\* the value of a pattern field a failure carries, as an optional value
FieldOf(f, field) ==
    CASE field = "filePath"    -> Some(f.testFilePath)
      [] field = "lineNumber"  -> f.metadata.lineNumber
      [] field = "codeSnippet" -> IF Truthy(f.metadata.errorSnippet) THEN f.metadata.errorSnippet ELSE None
      [] field = "locator"     -> IF Truthy(f.metadata.locator) THEN f.metadata.locator ELSE None
      [] field = "matcher"     -> IF Truthy(f.metadata.matcher) THEN f.metadata.matcher ELSE None
      [] field = "timeout"     -> f.metadata.timeout

ListOf(c, field) ==
    CASE field = "filePath"    -> c.commonPatterns.filePaths
      [] field = "lineNumber"  -> c.commonPatterns.lineNumbers
      [] field = "codeSnippet" -> c.commonPatterns.codeSnippets
      [] field = "locator"     -> c.commonPatterns.locators
      [] field = "matcher"     -> c.commonPatterns.matchers
      [] field = "timeout"     -> c.commonPatterns.timeouts

Carriers(c, field, v) ==
    Cardinality({i \in 1..Len(c.failures) : FieldOf(c.failures[i], field) = Some(v)})

CarriedValues(c, field) ==
    {Get(FieldOf(c.failures[i], field)) :
        i \in {j \in 1..Len(c.failures) : IsSome(FieldOf(c.failures[j], field))}}

\* 2 * carriers >= n  iff  carriers >= ceil(0.5 * n)
MeetsThreshold(c, field, v) == 2 * Carriers(c, field, v) >= Len(c.failures)

C6_CommonPatternsExact ==
    called => \A k \in 1..Len(Emitted) : \A field \in PatternFields :
        /\ \A v \in Range(ListOf(Emitted[k], field)) : MeetsThreshold(Emitted[k], field, v)
        /\ \A v \in CarriedValues(Emitted[k], field) :
              MeetsThreshold(Emitted[k], field, v) => v \in Range(ListOf(Emitted[k], field))

(* C7: for every emitted cluster firstSeen is the minimum member timestamp, *)
(* lastSeen the maximum, and firstSeen <= lastSeen.                        *)
C7_FirstLastSeen ==
    called => \A k \in 1..Len(Emitted) :
        /\ Emitted[k].metadata.firstSeen = MinOf(TimesOf(Emitted[k]))
        /\ Emitted[k].metadata.lastSeen = MaxOf(TimesOf(Emitted[k]))
        /\ Emitted[k].metadata.firstSeen <= Emitted[k].metadata.lastSeen

\* a cluster whose first member is not its earliest and whose last is not its latest
C7_Witness ==
    /\ called
    /\ \E k \in 1..Len(Emitted) :
          LET c == Emitted[k]
          IN  /\ Len(c.failures) >= 3
              /\ c.failures[1].timestamp > c.metadata.firstSeen
              /\ c.failures[Len(c.failures)].timestamp < c.metadata.lastSeen

(* C8: for every emitted cluster with at least 2 members,                  *)
(* averageTimeBetweenFailures is the mean of the consecutive differences   *)
(* of the member timestamps sorted ascending, and is >= 0; for a cluster   *)
(* with exactly 1 member it is absent.                                     *)

\* the member timestamps in ascending order, by repeated removal of the least
RECURSIVE AscendingTimes(_)
AscendingTimes(ts) ==
    IF ts = <<>> THEN <<>>
    ELSE LET m == MinOf(Range(ts))
             p == CHOOSE i \in 1..Len(ts) : ts[i] = m
         IN  <<m>> \o AscendingTimes(SubSeq(ts, 1, p - 1) \o SubSeq(ts, p + 1, Len(ts)))

RECURSIVE SumOfGaps(_)
SumOfGaps(ts) ==
    IF Len(ts) < 2 THEN 0 ELSE (ts[2] - ts[1]) + SumOfGaps(Tail(ts))

C8_AverageTimeBetweenFailures ==
    called => \A k \in 1..Len(Emitted) :
        LET c    == Emitted[k]
            n    == Len(c.failures)
            avg  == c.metadata.averageTimeBetweenFailures
            gaps == SumOfGaps(AscendingTimes(c.metadata.failureTimestamps))
        IN  /\ n >= 2 => /\ IsSome(avg)
                         /\ Get(avg).den = n - 1
                         /\ Get(avg).num = gaps
                         /\ gaps = c.metadata.lastSeen - c.metadata.firstSeen
                         /\ Get(avg).num >= 0
            /\ n = 1 => avg = None

\* a cluster of three or more members, not in time order, with a positive mean
C8_Witness ==
    /\ called
    /\ \E k \in 1..Len(Emitted) :
          LET c == Emitted[k]
          IN  /\ Len(c.failures) >= 3
              /\ \E i \in 1..(Len(c.failures) - 1) :
                    c.failures[i].timestamp > c.failures[i + 1].timestamp
              /\ IsSome(c.metadata.averageTimeBetweenFailures)
              /\ Get(c.metadata.averageTimeBetweenFailures).num > 0

(* C9: for every emitted cluster, errorMessages[i] is the prefix of the    *)
(* i-th member's errorMessage of length min(200, its length): no entry is  *)
(* longer than 200 characters, and a message of 1000 characters yields an  *)
(* entry of exactly 200.                                                   *)
C9_ErrorMessagesTruncated ==
    called => \A k \in 1..Len(Emitted) :
        LET c == Emitted[k]
        IN  /\ Len(c.metadata.errorMessages) = Len(c.failures)
            /\ \A i \in 1..Len(c.failures) :
                  LET msg   == c.failures[i].errorMessage
                      entry == c.metadata.errorMessages[i]
                  IN  /\ Len(entry) = Min(200, Len(msg))
                      /\ \A p \in 1..Len(entry) : entry[p] = msg[p]
                      /\ Len(entry) <= 200
                      /\ Len(msg) = 1000 => Len(entry) = 200

\* a cluster with a member whose message has 1000 characters, cut to 200,
\* beside a member whose shorter message is kept whole
C9_Witness ==
    /\ called
    /\ \E k \in 1..Len(Emitted) :
          LET c == Emitted[k]
          IN  \E i, j \in 1..Len(c.failures) :
                 /\ Len(c.failures[i].errorMessage) = 1000
                 /\ Len(c.metadata.errorMessages[i]) = 200
                 /\ Len(c.failures[j].errorMessage) = 199
                 /\ c.metadata.errorMessages[j] = c.failures[j].errorMessage

(* C10: every cluster id of a pass has the form YYYY-MM-DD-N, N a          *)
(* non-negative integer in decimal, and no two clusters of the pass share  *)
(* an id.                                                                  *)
HasIdForm(id) ==
    /\ Len(id) >= 12
    /\ \A p \in {1, 2, 3, 4, 6, 7, 9, 10} : id[p] \in Digits
    /\ \A p \in {5, 8, 11} : id[p] = "-"
    /\ \A p \in 12..Len(id) : id[p] \in Digits
    /\ NumberToString(IdSuffix(id)) = IdSuffixChars(id)

---------------------------------------------------------------------------
-----------------------------------------------------------------------------
(* Vocabulary of the calls of extractPatterns                              *)
ExtractReturned == answer # NotExtracted /\ ~answer[1].threw
ExtractThrew == answer # NotExtracted /\ answer[1].threw
MetadataFields == DOMAIN NoMetadata

-----------------------------------------------------------------------------
(* C12 as stated: for every metadata field that is set on the failure      *)
(* passed to extractPatterns, the metadata of the failure it returns has   *)
(* the value the caller supplied: an answer value never overwrites it,  *)
(* whatever the message, the stack or the structured payload contain.      *)
C12_SetFieldsKept ==
    ExtractReturned =>
        \A m \in MetadataFields :
            IsSome(argument.metadata[m])
                => answer[1].value.metadata[m] = argument.metadata[m]

-----------------------------------------------------------------------------
-----------------------------------------------------------------------------
(* C14: when extractPatterns is given a failure without metadata.runId     *)
(* whose metadata.reportLink contains '/runs/' followed by at least one    *)
(* digit, the failure it returns has as metadata.runId the digits that     *)
(* follow the first such '/runs/'; when the report link has no such        *)
(* occurrence (or there is no report link), runId stays absent.            *)
DecimalDigits == {"0", "1", "2", "3", "4", "5", "6", "7", "8", "9"}

\* the positions of link at which '/runs/' and a digit begin
RunsOccurrences(link) ==
    { i \in 1..(Len(link) - 6) :
        /\ SubSeq(link, i, i + 5) = <<"/", "r", "u", "n", "s", "/">>
        /\ link[i + 6] \in DecimalDigits }

\* the digits of link from position i on
DigitsFrom(link, i) ==
    SubSeq(link, i,
           MaxOf({ k \in i..Len(link) : \A h \in i..k : link[h] \in DecimalDigits }))

ReportLinkOf(failure) ==
    IF IsSome(failure.metadata.reportLink) THEN Get(failure.metadata.reportLink)
    ELSE <<>>

C14_RunIdLaw ==
    ExtractReturned /\ argument.metadata.runId = None =>
        LET link == ReportLinkOf(argument)
        IN  IF RunsOccurrences(link) = {}
            THEN answer[1].value.metadata.runId = None
            ELSE answer[1].value.metadata.runId =
                    Some(DigitsFrom(link, MinOf(RunsOccurrences(link)) + 6))

\* a report link with two occurrences gave the digits of the first, and in
\* the same call nothing else of the metadata was found
C14_Witness ==
    /\ ExtractReturned
    /\ argument.metadata.runId = None
    /\ Cardinality(RunsOccurrences(ReportLinkOf(argument))) = 2
    /\ answer[1].value.metadata.runId = Some(<<"1", "2">>)

-----------------------------------------------------------------------------
(* C15: validateFailures, given an array, either returns (no record of the *)
(* array is offending) or throws an error whose message names the index of *)
(* the first offending record and a field of that record that is           *)
(* offending.  A record is offending when its id, testTitle, testFilePath  *)
(* or errorMessage is missing (undefined or empty: the code tests          *)
(* !failure.id) or its timestamp is not a valid instant.                   *)
RequiredFields == {"id", "testTitle", "testFilePath", "errorMessage"}

OffendingFields(record) ==
    { f \in RequiredFields : record[f] = <<>> }
    \cup (IF "timestamp" \in DOMAIN record THEN {} ELSE {"timestamp"})

Contains(s, t) == \E i \in 1..(Len(s) - Len(t) + 1) : SubSeq(s, i, i + Len(t) - 1) = t

FieldNames ==
    [ id           |-> <<"f", "i", "e", "l", "d", ":", " ", "i", "d">>,
      testTitle    |-> <<"f", "i", "e", "l", "d", ":", " ", "t", "e", "s", "t", "T", "i", "t", "l", "e">>,
      testFilePath |-> <<"f", "i", "e", "l", "d", ":", " ", "t", "e", "s", "t", "F", "i", "l", "e", "P", "a", "t", "h">>,
      errorMessage |-> <<"f", "i", "e", "l", "d", ":", " ", "e", "r", "r", "o", "r", "M", "e", "s", "s", "a", "g", "e">>,
      timestamp    |-> <<"i", "n", "v", "a", "l", "i", "d", " ", "t", "i", "m", "e", "s", "t", "a", "m", "p">> ]

\* the fields a message names
NamedFields(message) == { f \in DOMAIN FieldNames : Contains(message, FieldNames[f]) }

NamesIndex(message, k) == Contains(message, <<"i", "n", "d", "e", "x", " ">> \o NumberToString(k) \o <<" ">>)

C15_FirstOffendingRecord ==
    answer # Unanswered /\ argument \in ValidateInputs /\ argument.isArray =>
        LET items     == argument.items
            offending == { i \in 1..Len(items) : OffendingFields(items[i]) # {} }
        IN  IF offending = {} THEN ~answer[1].threw
            ELSE /\ answer[1].threw
                 /\ NamesIndex(Get(answer[1].message), MinOf(offending) - 1)
                 /\ \A k \in 0..MaxRecords :
                        NamesIndex(Get(answer[1].message), k) => k = MinOf(offending) - 1
                 /\ \E f \in OffendingFields(items[MinOf(offending)]) :
                        NamedFields(Get(answer[1].message)) = {f}

\* two offending records behind a sound one, the first of them offending in
\* its timestamp only, and the error names it
C15_Witness ==
    /\ answer # Unanswered /\ argument \in ValidateInputs /\ argument.isArray
    /\ Len(argument.items) = 3
    /\ OffendingFields(argument.items[1]) = {}
    /\ OffendingFields(argument.items[2]) = {"timestamp"}
    /\ OffendingFields(argument.items[3]) = {"id", "errorMessage"}
    /\ answer[1].threw
    /\ NamesIndex(Get(answer[1].message), 1)
    /\ NamedFields(Get(answer[1].message)) = {"timestamp"}

-----------------------------------------------------------------------------
(* C16: the construction of a FlakinessDetective throws whenever the       *)
(* configuration merged with the defaults has epsilon <= 0, minPoints < 1, *)
(* minClusterSize < 1, a specified maxClusters < 1, a distance other than  *)
(* 'cosine' and 'euclidean', or timeWindow.days that is not a positive     *)
(* integer; for epsilon = -0.1 the message contains 'epsilon must be       *)
(* greater than 0'; and no pass of detect() runs with such a               *)
(* configuration.                                                          *)
PositiveInteger(q) == \E n \in 1..q.num : q.num = n * q.den

InvalidConfig(cfg) ==
    \/ cfg.clustering.epsilon.num <= 0
    \/ cfg.clustering.minPoints < 1
    \/ cfg.clustering.minClusterSize < 1
    \/ (cfg.clustering.maxClusters # None /\ cfg.clustering.maxClusters[1] < 1)
    \/ cfg.clustering.distance \notin {"cosine", "euclidean"}
    \/ ~PositiveInteger(cfg.timeWindow.days)

Constructing == pc # "new"

C16_InvalidConfigThrows ==
    /\ Constructing /\ InvalidConfig(mergeConfig(argument))
           => pc = "thrown" /\ answer[1].threw /\ config = NoObject
    /\ Constructing /\ argument.epsilon = Some([num |-> 0 - 1, den |-> 10])
           => /\ answer[1].threw
              /\ Contains(Get(answer[1].message), <<"e", "p", "s", "i", "l", "o", "n", " ", "m", "u", "s", "t", " ", "b", "e", " ", "g", "r", "e", "a", "t", "e", "r", " ", "t", "h", "a", "n", " ", "0">>)
    /\ pc = "thrown" => calls = <<>> /\ result = NoPass
    /\ calls # <<>> => config # NoObject /\ ~InvalidConfig(config)

\* the construction threw for days = 1.5 alone, every clustering option
\* being sound
C16_Witness ==
    /\ pc = "thrown"
    /\ answer[1].threw
    /\ argument.days = Some([num |-> 3, den |-> 2])
    /\ clusteringComplaint(mergeConfig(argument).clustering) = None

-----------------------------------------------------------------------------
(* C17: in a pass of detect() in which fetchFailures resolved with an      *)
(* empty array, detect() returns the empty list and generateEmbeddings is  *)
(* not called.                                                             *)
FetchedNothing ==
    \E k \in 1..Len(calls) :
        /\ calls[k].op = "fetchFailures"
        /\ calls[k].outcome = "resolved"
        /\ calls[k].value = [isArray |-> TRUE, items |-> <<>>]

C17_EmptyFetchReturnsEmpty ==
    FetchedNothing =>
        /\ result.status = "returned"
        /\ result.clusters = <<>>
        /\ \A k \in 1..Len(calls) : calls[k].op # "generateEmbeddings"

\* the pass that fetched nothing has ended
C17_Witness ==
    /\ FetchedNothing
    /\ pc = "idle"
    /\ result.status = "returned"
    /\ Len(calls) = 1

-----------------------------------------------------------------------------
(* C18: GoogleGenAIProvider.generateEmbeddings splits the n texts into     *)
(* consecutive chunks of at most maxBatchSize (for every maxBatchSize >= 1 *)
(* the config sets, 5 when it sets none), and when it returns it returns   *)
(* exactly n vectors, the i-th of which is the embedding of the i-th text, *)
(* whatever the order in which the requests of a batch complete.           *)
RECURSIVE Flatten(_)
Flatten(chunks) == IF chunks = <<>> THEN <<>> ELSE Head(chunks) \o Flatten(Tail(chunks))

GenerateReturned == answer # Unanswered /\ ~answer[1].threw
GenerateThrew == answer # Unanswered /\ answer[1].threw

C18_VectorsInInputOrder ==
    /\ genai.batches # <<>> /\ argument.maxBatchSize # <<0>> =>
          /\ Flatten(genai.batches) = argument.texts
          /\ \A j \in 1..Len(genai.batches) :
                /\ Len(genai.batches[j]) >= 1
                /\ Len(genai.batches[j]) <=
                      (IF argument.maxBatchSize = <<>> THEN 5 ELSE argument.maxBatchSize[1])
    /\ GenerateReturned =>
          /\ Len(answer[1].value) = Len(argument.texts)
          /\ \A n \in 1..Len(argument.texts) :
                answer[1].value[n] = ServiceValues(argument.texts[n])

\* four texts in batches of two were embedded, and in the second batch the
\* request of the second text completed before that of the first
C18_Witness ==
    /\ GenerateReturned
    /\ Len(argument.texts) = 4
    /\ argument.maxBatchSize = <<2>>
    /\ Len(genai.batches) = 2
    /\ genai.completion = <<2, 1>>

-----------------------------------------------------------------------------
(* Vocabulary of a call of generateEmbeddings that threw for a batch       *)
BatchFailed == GenerateThrew /\ genai.started >= 1

HasDigit(s) == \E n \in 1..Len(s) : s[n] \in DecimalDigits

\* the text names the batch of index i, counted from 0 or from 1
NamesBatch(s, i) == Contains(s, NumberToString(i)) \/ Contains(s, NumberToString(i + 1))

\* no batch behind the one that failed was begun, and no vector is returned
StoppedAtBatch ==
    /\ genai.pc = "done"
    /\ genai.started = genai.i + 1
    /\ answer[1].value = <<>>

(* C19 as stated: when a request of batch k fails, generateEmbeddings      *)
(* fails with an error that names the index of batch k, no later batch is  *)
(* started, and none of the vectors obtained from the batches before k is  *)
(* returned.                                                               *)
C19_ErrorNamesBatch ==
    BatchFailed => NamesBatch(Get(answer[1].message), genai.i) /\ StoppedAtBatch

(* C19 amended: when a request of batch k fails, generateEmbeddings fails  *)
(* with the error 'Failed to generate embeddings for batch: ' followed by  *)
(* the request's error, which names no batch (the number k + 1 of the      *)
(* batch is in the line that is logged only); no later batch is started,   *)
(* and none of the vectors obtained from the batches before k is returned. *)
C19_ErrorWithoutBatchIndex ==
    BatchFailed =>
        /\ Get(answer[1].message) =
              <<"F", "a", "i", "l", "e", "d", " ", "t", "o", " ", "g", "e", "n", "e", "r", "a", "t", "e", " ", "e", "m", "b", "e", "d", "d", "i", "n", "g", "s", " ", "f", "o", "r", " ", "b", "a", "t", "c", "h", ":", " ", "E", "r", "r", "o", "r", ":", " ", "F", "a", "i", "l", "e", "d", " ", "t", "o", " ", "e", "m", "b", "e", "d", " ", "c", "o", "n", "t", "e", "n", "t", ":", " ">>
                  \o ServiceError
        /\ ~HasDigit(Get(answer[1].message))
        /\ \E n \in 1..Len(genai.log) :
              /\ Contains(genai.log[n], <<"E", "r", "r", "o", "r", " ", "e", "m", "b", "e", "d", "d", "i", "n", "g", " ", "b", "a", "t", "c", "h", " ">>
                                            \o NumberToString(genai.i + 1) \o <<":">>)
        /\ StoppedAtBatch

\* the second of three batches failed when the vectors of the first were in
\* hand
C19_Witness ==
    /\ BatchFailed
    /\ genai.i = 1
    /\ Len(genai.batches) = 3
    /\ Len(genai.embeddings) = 2
    /\ genai.pending = {}

-----------------------------------------------------------------------------
(* Vocabulary of the vectors a provider resolved with in the pass          *)
\* the values generateEmbeddings resolved with that are arrays of arrays
ProvidedVectors ==
    { calls[k].value.items : k \in
        { h \in 1..Len(calls) :
            /\ calls[h].op = "generateEmbeddings"
            /\ calls[h].outcome = "resolved"
            /\ calls[h].value.isArray
            /\ \A n \in 1..Len(calls[h].value.items) : calls[h].value.items[n].isArray } }

EmptyOrUneven(vectors) ==
    \/ vectors = <<>>
    \/ \E n \in 1..Len(vectors) : vectors[n].v = <<>>
    \/ \E n, m \in 1..Len(vectors) : Len(vectors[n].v) # Len(vectors[m].v)

HasNotANumber(vectors) == \E n \in 1..Len(vectors) : vectors[n].notNumbers # {}

HasInfiniteComponent(vectors) ==
    \E n \in 1..Len(vectors) : \E d \in 1..Len(vectors[n].v) :
        vectors[n].v[d] \in {Infinity, 0 - Infinity}

FailedBeforeClustering == result.status = "rejected" /\ ~called

\* the vectors clusterFailures was called with
ClusteredVectors ==
    { embeddedFailures[n].embedding :
        n \in { m \in 1..Len(embeddedFailures) : "embedding" \in DOMAIN embeddedFailures[m] } }

OneDimension(vectors) ==
    \A a, b \in vectors : Len(a) = Len(b) /\ Len(a) > 0

-----------------------------------------------------------------------------
\* a pass has returned and no other is under way
PassReturned == pc = "idle" /\ result.status = "returned"

(* C21 as stated: after any detect() that returns the list C, getClusters() *)
(* with no limit returns exactly C: the store holds the output of the      *)
(* latest pass, for every sequence of passes, those whose input is empty   *)
(* included.                                                               *)
C21_StoreHoldsLatestPass ==
    PassReturned => getClusters(None) = result.clusters

(* C21 amended: after a detect() that fetched at least one failure and     *)
(* returns the list C, getClusters() with no limit returns exactly C,      *)
(* whatever earlier passes saved; a detect() that fetched nothing returns  *)
(* the empty list and leaves the store as it was.                          *)
C21_StoreHoldsLatestSavedPass ==
    /\ [](PassReturned /\ ~FetchedNothing
            => getClusters(None) = result.clusters)
    /\ [](PassReturned /\ FetchedNothing => result.clusters = <<>>)
    /\ [][FetchedNothing' => store' = store]_vars

\* a pass that fetched failures has returned two clusters, and the store
\* holds them
C21_Witness ==
    /\ PassReturned
    /\ ~FetchedNothing
    /\ result.clusters # <<>>
    /\ store = result.clusters
    /\ Len(store) = 2

-----------------------------------------------------------------------------
\* the places of the events of one kind about batch i among the first p
\* events of the call
EventsBefore(p, kind, i) ==
    {q \in 1..(p - 1) : genai.events[q] = Event(kind, i)}

\* at place p a request of a batch after the first is made
LaterRequestAt(p) ==
    genai.events[p].kind = "request" /\ genai.events[p].batch > 0

(* C22: in generateEmbeddings the batches are dispatched strictly one      *)
(* after another: no request of batch k+1 is made before every request of  *)
(* batch k has completed and a wait of batchDelay has then elapsed; and    *)
(* after the final batch no wait occurs before the result is returned.     *)
C22_BatchesOneAfterAnother ==
    /\ \A p \in 1..Len(genai.events) :
         LaterRequestAt(p) =>
            LET k == genai.events[p].batch - 1
            IN  \E w \in EventsBefore(p, "wait", k) :
                   /\ Cardinality(EventsBefore(w, "settled", k))
                         = Len(genai.batches[k + 1])
                   /\ Cardinality(EventsBefore(w, "request", k))
                         = Len(genai.batches[k + 1])
    /\ \A p \in 2..Len(genai.events) :
         /\ genai.events[p].kind = "request"
               => genai.events[p - 1].batch <= genai.events[p].batch
         /\ genai.events[p].kind = "return"
               => /\ genai.events[p - 1] = Event("settled", Len(genai.batches) - 1)
                  /\ EventsBefore(p, "wait", Len(genai.batches) - 1) = {}

\* a call over three batches or more has returned
C22_Witness ==
    /\ GenerateReturned
    /\ Len(genai.batches) >= 3
    /\ \E p \in 1..Len(genai.events) : genai.events[p] = Event("wait", 1)
    /\ genai.events[Len(genai.events)].kind = "return"

-----------------------------------------------------------------------------
\* the lines of a text: what lies between its line feeds
RECURSIVE SplitLines(_)
SplitLines(s) ==
    IF \A i \in 1..Len(s) : s[i] # "\n" THEN <<s>>
    ELSE LET i == CHOOSE j \in 1..Len(s) :
                     s[j] = "\n" /\ \A h \in 1..(j - 1) : s[h] # "\n"
         IN  <<SubSeq(s, 1, i - 1)>> \o SplitLines(SubSeq(s, i + 1, Len(s)))

\* what a line has before its first colon
LabelOf(line) ==
    IF \A i \in 1..Len(line) : line[i] # ":" THEN line
    ELSE SubSeq(line, 1, (CHOOSE j \in 1..Len(line) :
                            line[j] = ":" /\ \A h \in 1..(j - 1) : line[h] # ":") - 1)

\* the labels in the order the claim gives, and the metadata field of each
\* label that has one
ContextLabels ==
    << <<"T", "e", "s", "t">>, <<"F", "i", "l", "e">>, <<"P", "r", "o", "j", "e", "c", "t">>, <<"S", "u", "i", "t", "e">>, <<"L", "i", "n", "e">>, <<"L", "o", "c", "a", "t", "o", "r">>,
       <<"M", "a", "t", "c", "h", "e", "r">>, <<"A", "c", "t", "u", "a", "l">>, <<"E", "x", "p", "e", "c", "t", "e", "d">>, <<"T", "i", "m", "e", "o", "u", "t">>, <<"C", "o", "d", "e">>, <<"E", "r", "r", "o", "r">> >>

ContextFields ==
    << "", "", "projectName", "suiteName", "lineNumber", "locator", "matcher",
       "actualValue", "expectedValue", "timeout", "errorSnippet", "" >>

\* the places in ContextLabels of the labels of the lines returned, line by
\* line (0 for a line with another label)
ReturnedLabels ==
    LET lines == SplitLines(answer[1])
    IN  [k \in 1..Len(lines) |->
            IF \E r \in 1..Len(ContextLabels) : ContextLabels[r] = LabelOf(lines[k])
            THEN CHOOSE r \in 1..Len(ContextLabels) :
                     ContextLabels[r] = LabelOf(lines[k])
            ELSE 0]

\* fixed order; Test, File and Error always there, Error last
LinesInFixedOrder ==
    /\ \A k \in 1..Len(ReturnedLabels) : ReturnedLabels[k] # 0
    /\ \A k \in 1..(Len(ReturnedLabels) - 1) : ReturnedLabels[k] < ReturnedLabels[k + 1]
    /\ Len(ReturnedLabels) >= 3
    /\ ReturnedLabels[1] = 1
    /\ ReturnedLabels[2] = 2
    /\ ReturnedLabels[Len(ReturnedLabels)] = Len(ContextLabels)

HasLine(r) == \E k \in 1..Len(ReturnedLabels) : ReturnedLabels[k] = r

\* a field that is set to a value JavaScript takes for true: a string that
\* is not empty, a number that is not 0
TruthyField(metadata, field) ==
    IF field \in {"lineNumber", "timeout"} THEN TruthyNumber(metadata[field])
    ELSE Truthy(metadata[field])

(* C23 as stated: createRichEmbeddingContext returns lines in the fixed    *)
(* order Test, File, Project, Suite, Line, Locator, Matcher, Actual,       *)
(* Expected, Timeout, Code, Error; Test, File and Error are always present *)
(* (Error last), and each other line is present exactly when its metadata  *)
(* field is present on the failure.                                        *)
C23_LineWhenFieldPresent ==
    answer # Unanswered =>
        /\ LinesInFixedOrder
        /\ \A r \in 3..(Len(ContextLabels) - 1) :
              HasLine(r) <=> IsSome(argument.metadata[ContextFields[r]])

(* C23 amended: the same order, with Test, File and Error always present   *)
(* and Error last; each other line is present exactly when its metadata    *)
(* field is set to a truthy value: a field set to the empty string or to 0 *)
(* gives no line.                                                          *)
C23_LineWhenFieldTruthy ==
    answer # Unanswered =>
        /\ LinesInFixedOrder
        /\ \A r \in 3..(Len(ContextLabels) - 1) :
              HasLine(r) <=> TruthyField(argument.metadata, ContextFields[r])

\* the context of a failure with every field set, its timeout to 0 and the
\* others to truthy values, has been returned: every line but Timeout
C23_Witness ==
    /\ answer # Unanswered
    /\ Len(ReturnedLabels) = Len(ContextLabels) - 1
    /\ argument.metadata.timeout = Some(0)
    /\ \A r \in 3..(Len(ContextLabels) - 1) : IsSome(argument.metadata[ContextFields[r]])

-----------------------------------------------------------------------------
\* how a pass settles that runs alone, with fetchFailures resolving with
\* fetched and generateEmbeddings with provided
detectAlone(fetched, provided, clustering, date) ==
    LET first == detectAfterFetch(fetched)
    IN  IF first.next = "return" THEN Returned(<<>>)
        ELSE IF first.next = "throw" THEN Rejected(first.error)
        ELSE LET second == detectAfterEmbeddings(first.enhancedFailures, provided,
                                                 clustering, date)
             IN  IF second.next = "throw" THEN Rejected(second.error)
                 ELSE Returned(second.out.clusters)

PassDone(i) == running.passes[i].pc = "done"

-----------------------------------------------------------------------------
\* the collaborator calls of a pass, in the order of detect()
CallOrder == <<"fetchFailures", "generateEmbeddings", "saveClusters">>

(* C25: the core never retries: in a single detect() pass fetchFailures is *)
(* called exactly once, generateEmbeddings at most once and saveClusters   *)
(* at most once, in that order, and a collaborator call that failed is not *)
(* issued again: it is the last call of its pass, and the pass rejects.    *)
C25_NeverRetries ==
    /\ result # NoPass => Len(calls) >= 1
    /\ Len(calls) <= Len(CallOrder)
    /\ \A k \in 1..Len(calls) :
          /\ calls[k].op = CallOrder[k]
          /\ k < Len(calls) => calls[k].outcome = "resolved"
          /\ calls[k].outcome = "rejected"
                => /\ k = Len(calls)
                   /\ pc = "idle"
                   /\ result.status = "rejected"
          /\ calls[k].outcome = "pending" => pc = calls[k].op

\* a pass has ended with the rejection of its generateEmbeddings
C25_Witness ==
    /\ pc = "idle"
    /\ Len(calls) = 2
    /\ calls[2].op = "generateEmbeddings"
    /\ calls[2].outcome = "rejected"
    /\ result.status = "rejected"

-----------------------------------------------------------------------------
\* the three forms of an assertionPattern
MatcherOnLocator(c) ==
    c.commonPatterns.matchers[1] \o <<" ", "o", "n", " ">> \o c.commonPatterns.locators[1]

TimeoutSuffix(c) ==
    <<" ", "(">> \o NumberToString(c.commonPatterns.timeouts[1]) \o <<"m", "s", " ", "t", "i", "m", "e", "o", "u", "t", ")">>

-----------------------------------------------------------------------------
(* C27 as stated: the numeric suffix of a cluster's id equals the          *)
(* cluster's zero-based position in the output order of clusterFailures:   *)
(* the first returned cluster has suffix 0, the second 1, and so on.       *)
C27_SuffixIsOutputPosition ==
    called => \A k \in 1..Len(Emitted) : IdSuffix(Emitted[k].id) = k - 1

\* the s-th, counted from zero, of the index sets of raw that have at least
\* minClusterSize points, in the order in which dbscan.run yields them
SurvivorAt(raw, s) ==
    raw[CHOOSE i \in LargeEnough(raw) :
            Cardinality({h \in LargeEnough(raw) : h < i}) = s]

(* C27 amended: the numeric suffix of a cluster's id is the cluster's      *)
(* zero-based position among the clusters that pass the minClusterSize     *)
(* filter, in the order in which DBSCAN discovered them; the list is       *)
(* sorted by size and capped afterwards, so the suffix need not be the     *)
(* position in the returned list.                                          *)
C27_SuffixIsDiscoveryPosition ==
    (called /\ ~out.threw) =>
        LET raw == RawOfCall
        IN  \A k \in 1..Len(Emitted) :
               /\ IdSuffix(Emitted[k].id) < Cardinality(LargeEnough(raw))
               /\ Emitted[k].metadata.failureIds
                     = MemberIds(SurvivorAt(raw, IdSuffix(Emitted[k].id)))

\* the first cluster returned was discovered after the second
C27_Witness ==
    /\ called
    /\ Len(Emitted) >= 2
    /\ IdSuffix(Emitted[1].id) = 1
    /\ IdSuffix(Emitted[2].id) = 0
    /\ Len(Emitted[1].failures) > Len(Emitted[2].failures)

-----------------------------------------------------------------------------
\* no method of the provider has been called yet
NoCallYet == \A c \in 1..MaxCallers : genai.callers[c].pc = "idle"

(* C28: for one GoogleGenAIProvider instance, the underlying client and    *)
(* embedding model are created at most once over any interleaving of       *)
(* concurrent generateEmbeddings and embedContent calls, and not before    *)
(* the first such call.                                                    *)
C28_ClientCreatedAtMostOnce ==
    /\ genai.created <= 1
    /\ genai.models <= 1
    /\ NoCallYet => genai.created = 0 /\ genai.models = 0

-----------------------------------------------------------------------------
\* the places (cluster, member) at which the i-th input failure appears in
\* the result
PlacesOf(i) ==
    { <<k, j>> \in (1..Len(Emitted)) \X (1..MaxMany + 1) :
         /\ j <= Len(Emitted[k].failures)
         /\ Emitted[k].failures[j] = embeddedFailures[i] }

\* the points within epsilon of the i-th input failure, itself included
NeighboursOf(i) ==
    Range(regionQuery([h \in 1..Len(embeddedFailures) |-> embeddedFailures[h].embedding],
                      i, options.distance, options.epsilon))

CorePoint(i) == Cardinality(NeighboursOf(i)) >= options.minPoints

\* noise: a point that is no core point and lies within epsilon of none
NoisePoint(i) ==
    /\ ~CorePoint(i)
    /\ \A h \in 1..Len(embeddedFailures) : CorePoint(h) => i \notin NeighboursOf(h)

(* C29: in the output of clusterFailures every input failure appears in at *)
(* most one cluster, and every member of a cluster is one of the input     *)
(* failures; failures classified as noise appear in no cluster.            *)
C29_ClustersPartitionInput ==
    (called /\ ~out.threw) =>
        /\ \A i \in 1..Len(embeddedFailures) :
              /\ Cardinality(PlacesOf(i)) <= 1
              /\ NoisePoint(i) => PlacesOf(i) = {}
        /\ \A k \in 1..Len(Emitted) : \A j \in 1..Len(Emitted[k].failures) :
              \E i \in 1..Len(embeddedFailures) :
                 Emitted[k].failures[j] = embeddedFailures[i]

\* a call that returned two clusters and left a noise point out
C29_Witness ==
    /\ called
    /\ Len(Emitted) >= 2
    /\ \E i \in 1..Len(embeddedFailures) : NoisePoint(i) /\ PlacesOf(i) = {}

-----------------------------------------------------------------------------
\* fetchClusters() has returned what the file written by saveClusters holds
FetchedAfterSave == answer # Unanswered /\ answer[1].fromFile

(* C30: FilesystemAdapter round trip: for every list of clusters C,        *)
(* fetchClusters() after saveClusters(C) returns clusters equal to C, with *)
(* every timestamp (each member failure's timestamp, metadata.firstSeen,   *)
(* metadata.lastSeen and every entry of metadata.failureTimestamps)        *)
(* restored to the same instant as a date value.                           *)
C30_RoundTrip ==
    FetchedAfterSave =>
        /\ answer[1].clusters = argument
        /\ \A k \in 1..Len(answer[1].clusters) :
              \A j \in 1..Len(answer[1].clusters[k].metadata.failureTimestamps) :
                 answer[1].clusters[k].metadata.failureTimestamps[j].kind = "date"
=============================================================================
